---------------------------- MODULE Spec2Model ----------------------------
(***************************************************************************)
(* A model of the magalix agent's metrics scraper (metrics/kubelet.go),    *)
(* of its platform collaborator (kuber/kube.go) and of the supervisor      *)
(* (main).                                                                 *)
(*                                                                         *)
(* Numbers.  The program computes on int64 nanoseconds.  TLC's integers    *)
(* are 32 bits wide, so the model keeps the program's arithmetic on a      *)
(* narrower machine word: IntBits-bit two's complement instead of 64.      *)
(* Time is counted in clock ticks, TicksPerSecond of them to a second, so  *)
(* the program's time.Second.Nanoseconds() is Second ticks, and its        *)
(* per-second multiplier 1e9 (nanoseconds in a second) is Second as well.  *)
(* The zero time.Time{} is the timestamp 0.                                *)
(***************************************************************************)
EXTENDS Integers, Sequences, FiniteSets, TLC

\* ------------------------------------------------------------- bounds
\* Width of the machine word the model computes on (the program: 64).
IntBits == 11
\* Clock ticks in one second (the program: 10^9 nanoseconds).
TicksPerSecond == 2
\* Observation timestamps range over 0 .. MaxTime ticks.
MaxTime == 4
\* Counter values range over 0 .. MaxValue.
MaxValue == 3


VARIABLES
    previous,   \* Kubelet.previous: the rate table, key -> KubeletValue
    metrics,    \* GetMetrics' metrics: the batch of records being collected
    tickTime,   \* GetMetrics' tickTime argument of the running cycle
    timeouts,   \* Kubelet.timeouts.backoff: [sleep, maxRetries]
    try,        \* withBackoff's try counter
    boPc,       \* where the running withBackoff call stands
    boCalls,    \* the outcomes of the invocations of fn made by that call
    boSleeps,   \* the timeouts that call has slept, in order
    boRet,      \* what that call returned
    pending,    \* the call into kuber.Kube about to be made: its arguments
                \* and what the platform will answer; for main, what its
                \* start-up will meet
    returned,   \* what the last call into kuber.Kube returned, with the
                \* requests it sent to the platform; for main, the process
    scrape,     \* the running GetMetrics call: where it stands, the
                \* kubelet's optInAnalysisData and (history) the records it
                \* emitted from the snapshot
    tasks,      \* the node tasks of that call: where each stands, its
                \* error, its summary and throttleMetrics, its raw response
                \* and (history) the records it appended
    result,     \* what that call returned
    last        \* history: the operation that produced this state, its
                \* arguments and what it read

rateVars == <<previous, metrics, tickTime>>
backoffVars == <<timeouts, try, boPc, boCalls, boSleeps, boRet>>
kubeVars == <<pending, returned>>
scrapeVars == <<scrape, tasks, result>>
vars == <<rateVars, backoffVars, kubeVars, scrapeVars, last>>

\* The state of a component its specification leaves alone.
RateIdle == previous = <<>> /\ metrics = <<>> /\ tickTime = 0
BackoffIdle ==
    /\ timeouts = [sleep |-> 0, maxRetries |-> 0]
    /\ try = 0 /\ boPc = "idle" /\ boCalls = <<>> /\ boSleeps = <<>> /\ boRet = "none"
ScrapeIdle == scrape = [pc |-> "off"] /\ tasks = <<>> /\ result = [op |-> "none"]
KubeIdle == pending = [op |-> "none"] /\ returned = [op |-> "none"]

\* ------------------------------------------------------- machine word
\* int64 in the program, IntBits bits here.
MaxInt == 2^(IntBits - 1) - 1

\* Two's complement wrap-around of Go's signed integer arithmetic.
Wrap(x) == ((x + 2^(IntBits - 1)) % 2^IntBits) - 2^(IntBits - 1)

\* Go's integer division: the quotient truncated toward zero (b > 0).
Quot(a, b) == IF a >= 0 THEN a \div b ELSE -((-a) \div b)

\* time.Second.Nanoseconds(), in ticks.
Second == TicksPerSecond

\* time.Hour, in ticks.
Hour == 3600 * Second

\* The multiplier of cpu/usage_rate: nanoseconds per nanosecond to millicores.
MilliMultiplier == 1000

\* The multiplier 1e9 of the network and throttling rates: the time units
\* in one second.
NanoMultiplier == Second

\* ------------------------------------------------------------ records
\* uuid.Nil
Nil == "00000000"

TypeCluster == "cluster"
TypeNode == "node"
TypePod == "pod"
TypePodContainer == "pod_container"

NoTags == <<>>

\* &Metrics{...}
Metric(measurementType, measurement, nodeID, applicationID, serviceID, containerID, podName, timestamp, value, additionalTags) ==
    [ Name |-> measurement, Type |-> measurementType, Node |-> nodeID,
      Application |-> applicationID, Service |-> serviceID,
      Container |-> containerID, PodName |-> podName,
      Timestamp |-> timestamp, Value |-> value,
      AdditionalTags |-> additionalTags ]

\* KubeletValue{Timestamp, Value}
KubeletValue(timestamp, value) == [Timestamp |-> timestamp, Value |-> value]

\* ------------------------------------------------------ rate calculator
ErrNil == "nil"
ErrNoPrevious == "No previous value"
ErrNotNewer == "timestamp less than or equal previous one"

\* GetMetrics.getKey
getKey(entity, parentKey, entityKey, measurement) ==
    entity \o "-" \o measurement \o ":"
        \o (IF parentKey # "" THEN parentKey \o ":" ELSE "") \o entityKey

\* Kubelet.getPreviousValue: a copy of the entry, or an error.
getPreviousValue(prev, key) ==
    IF key \in DOMAIN prev
    THEN [err |-> ErrNil, value |-> prev[key]]
    ELSE [err |-> ErrNoPrevious, value |-> KubeletValue(0, 0)]

\* Kubelet.updatePreviousValue: kubelet.previous[key] = *value
updatePreviousValue(prev, key, value) ==
    [k \in DOMAIN prev \cup {key} |-> IF k = key THEN value ELSE prev[k]]

\* calcRate with an off-by-one guard: a duration of exactly one second passes.
calcRate_GuardBelowSecond(prev, key, timestamp, value, multiplier) ==
    LET got == getPreviousValue(prev, key)
        duration == Wrap(timestamp - got.value.Timestamp)
        previousValue == IF got.value.Value > value THEN 0 ELSE got.value.Value
    IN  IF got.err # ErrNil
        THEN [rate |-> 0, err |-> got.err]
        ELSE IF duration < Second
        THEN [rate |-> 0, err |-> ErrNotNewer]
        ELSE [rate |-> Quot(Wrap(multiplier * Wrap(value - previousValue)), duration), err |-> ErrNil]

\* calcRate that rejects only an equal timestamp: an older one passes.
calcRate_GuardEqualOnly(prev, key, timestamp, value, multiplier) ==
    LET got == getPreviousValue(prev, key)
        duration == Wrap(timestamp - got.value.Timestamp)
        previousValue == IF got.value.Value > value THEN 0 ELSE got.value.Value
    IN  IF got.err # ErrNil
        THEN [rate |-> 0, err |-> got.err]
        ELSE IF duration = 0
        THEN [rate |-> 0, err |-> ErrNotNewer]
        ELSE [rate |-> Quot(Wrap(multiplier * Wrap(value - previousValue)), duration), err |-> ErrNil]

\* calcRate that rejects only a timestamp that is not newer: a duration of
\* up to one second passes.
calcRate_GuardNotAfter(prev, key, timestamp, value, multiplier) ==
    LET got == getPreviousValue(prev, key)
        duration == Wrap(timestamp - got.value.Timestamp)
        previousValue == IF got.value.Value > value THEN 0 ELSE got.value.Value
    IN  IF got.err # ErrNil
        THEN [rate |-> 0, err |-> got.err]
        ELSE IF duration <= 0
        THEN [rate |-> 0, err |-> ErrNotNewer]
        ELSE [rate |-> Quot(Wrap(multiplier * Wrap(value - previousValue)), duration), err |-> ErrNil]

\* calcRate that gives up on a counter reset instead of taking 0 as the
\* baseline.
calcRate_DropOnReset(prev, key, timestamp, value, multiplier) ==
    LET got == getPreviousValue(prev, key)
        duration == Wrap(timestamp - got.value.Timestamp)
    IN  IF got.err # ErrNil
        THEN [rate |-> 0, err |-> got.err]
        ELSE IF duration <= Second
        THEN [rate |-> 0, err |-> ErrNotNewer]
        ELSE IF got.value.Value > value
        THEN [rate |-> 0, err |-> "counter reset"]
        ELSE [rate |-> Quot(Wrap(multiplier * Wrap(value - got.value.Value)), duration), err |-> ErrNil]

\* GetMetrics.calcRate
calcRate(prev, key, timestamp, value, multiplier) ==
    LET got == getPreviousValue(prev, key)
        duration == Wrap(timestamp - got.value.Timestamp)
        previousValue == IF got.value.Value > value THEN 0 ELSE got.value.Value
    IN  IF got.err # ErrNil
        THEN [rate |-> 0, err |-> got.err]
        ELSE IF duration <= Second
        THEN [rate |-> 0, err |-> ErrNotNewer]
        ELSE [rate |-> Quot(Wrap(multiplier * Wrap(value - previousValue)),
                            duration),
              err |-> ErrNil]

\* GetMetrics.addMetricValue: a zero timestamp becomes tickTime.
addMetricValue(batch, tick, measurementType, measurement, nodeID, applicationID, serviceID, containerID, podName, timestamp, value) ==
    Append(batch,
           Metric(measurementType, measurement, nodeID, applicationID,
                  serviceID, containerID, podName,
                  IF timestamp = 0 THEN tick ELSE timestamp, value, NoTags))

\* GetMetrics.addMetricValueWithTags: no substitution of the timestamp.
addMetricValueWithTags(batch, measurementType, measurement, nodeID, applicationID, serviceID, containerID, podName, timestamp, value, additionalTags) ==
    Append(batch,
           Metric(measurementType, measurement, nodeID, applicationID,
                  serviceID, containerID, podName, timestamp, value,
                  additionalTags))

\* The timestamp addMetricValueRate works with: tickTime for a zero one.
rateTimestamp(tick, timestamp) == IF timestamp = 0 THEN tick ELSE timestamp

\* addMetricValueRate that stores the point only after a successful
\* computation (the store moved below the error return).
addMetricValueRate_StoreOnSuccess(st, tick, measurementType, parentKey, entityKey, measurement, nodeID, applicationID, serviceID, containerID, pod, timestamp, value, multiplier) ==
    LET ts == rateTimestamp(tick, timestamp)
        key == getKey(measurementType, parentKey, entityKey, measurement)
        res == calcRate(st.previous, key, ts, value, multiplier)
    IN  IF res.err # ErrNil
        THEN st
        ELSE [previous |-> updatePreviousValue(st.previous, key, KubeletValue(ts, value)),
              metrics |-> addMetricValue(st.metrics, tick, measurementType, measurement, nodeID, applicationID, serviceID, containerID, pod, ts, res.rate)]

\* GetMetrics.addMetricValueRate on st = [previous, metrics]: the rate is
\* computed, the point is stored, and the record is appended unless the
\* computation failed.
addMetricValueRate(st, tick, measurementType, parentKey, entityKey, measurement, nodeID, applicationID, serviceID, containerID, pod, timestamp, value, multiplier) ==
    LET ts == rateTimestamp(tick, timestamp)
        key == getKey(measurementType, parentKey, entityKey, measurement)
        res == calcRate(st.previous, key, ts, value, multiplier)
        stored == updatePreviousValue(st.previous, key,
                                      KubeletValue(ts, value))
    IN  IF res.err # ErrNil
        THEN [previous |-> stored, metrics |-> st.metrics]
        ELSE [previous |-> stored,
              metrics |-> addMetricValue(st.metrics, tick, measurementType,
                                         measurement, nodeID, applicationID,
                                         serviceID, containerID, pod, ts,
                                         res.rate)]

\* The mutant of collectGarbage: an entry is removed once it is an hour old.
collectGarbage_AtHour(prev, now) ==
    [k \in {x \in DOMAIN prev : ~(now - prev[x].Timestamp >= Hour)} |-> prev[k]]

\* Kubelet.collectGarbage at wall-clock time now.
collectGarbage(prev, now) ==
    [k \in {x \in DOMAIN prev : ~(now - prev[x].Timestamp > Hour)} |-> prev[k]]

\* ------------------------------------------- the rate calculator at work
\* The call sites of addMetricValueRate the harness drives: the node's
\* cpu/usage_rate and a pod's network/tx_rate.
RateSites ==
    { [ measurementType |-> TypeNode, parentKey |-> "", entityKey |-> "n1",
        measurement |-> "cpu/usage_rate", nodeID |-> "n1",
        applicationID |-> Nil, serviceID |-> Nil, containerID |-> Nil,
        pod |-> "", multiplier |-> MilliMultiplier ],
      [ measurementType |-> TypePod, parentKey |-> "ns", entityKey |-> "p1",
        measurement |-> "network/tx_rate", nodeID |-> "n1",
        applicationID |-> "a1", serviceID |-> "s1", containerID |-> Nil,
        pod |-> "p1", multiplier |-> NanoMultiplier ] }

siteKey(site) == getKey(site.measurementType, site.parentKey, site.entityKey, site.measurement)

\* The tick times of the cycles the harness runs.
Ticks == {2, MaxTime}

\* Wall-clock readings of time.Now() at the start of a cycle.
Nows == {MaxTime, Hour + 2, Hour + MaxTime + 1}

InitRate ==
    /\ previous = <<>>
    /\ metrics = <<>>
    /\ tickTime \in Ticks
    /\ last = [op |-> "init"]
    /\ BackoffIdle
    /\ KubeIdle
    /\ ScrapeIdle

\* A new GetMetrics cycle starts: garbage collection, an empty batch.
RateCycle(tick, now) ==
    /\ previous' = collectGarbage(previous, now)
    /\ metrics' = <<>>
    /\ tickTime' = tick
    /\ last' = [op |-> "cycle", now |-> now, before |-> previous]
    /\ UNCHANGED <<backoffVars, kubeVars, scrapeVars>>

\* One call of addMetricValueRate within the cycle; the harness follows a
\* cycle up to its first rate record.
RateObserve(site, timestamp, value) ==
    /\ metrics = <<>>
    /\ LET st == addMetricValueRate([previous |-> previous, metrics |-> metrics], tickTime, site.measurementType, site.parentKey, site.entityKey, site.measurement, site.nodeID, site.applicationID, site.serviceID, site.containerID, site.pod, timestamp, value, site.multiplier)
       IN  /\ previous' = st.previous
           /\ metrics' = st.metrics
    /\ last' = [ op |-> "rate", site |-> site, key |-> siteKey(site),
                 rawTimestamp |-> timestamp,
                 timestamp |-> rateTimestamp(tickTime, timestamp),
                 value |-> value, before |-> previous, batch |-> metrics ]
    /\ UNCHANGED <<tickTime, backoffVars, kubeVars, scrapeVars>>

NextRate ==
    \/ \E tick \in Ticks, now \in Nows : RateCycle(tick, now)
    \/ \E site \in RateSites, timestamp \in 0 .. MaxTime, value \in 0 .. MaxValue :
          RateObserve(site, timestamp, value)

SpecRate == InitRate /\ [][NextRate]_vars

\* ------------------------------------------------ the emission closures
\* The three closures of GetMetrics that append records, each at one of
\* its call sites: addMetricValue and addMetricValueWithTags on
\* nodes/count, addMetricValueRate on the node's cpu/usage_rate.
EmissionPaths == {"addMetricValue", "addMetricValueWithTags", "addMetricValueRate"}

\* The rate table the rate closure finds: the node's key, stored long ago.
EmissionBaseline == getKey(TypeNode, "", "n1", "cpu/usage_rate") :> KubeletValue(0 - Second, 0)

InitEmit ==
    /\ pending \in [op : {"emit"}, path : EmissionPaths, timestamp : 0 .. MaxTime, value : 0 .. MaxValue]
    /\ returned = [op |-> "none"]
    /\ previous = EmissionBaseline
    /\ metrics = <<>>
    /\ tickTime \in Ticks
    /\ last = [op |-> "init"]
    /\ BackoffIdle
    /\ ScrapeIdle

\* The pending emission is made.
Emit ==
    /\ pending.op = "emit"
    /\ LET plain == addMetricValue(metrics, tickTime, TypeCluster, "nodes/count", Nil, Nil, Nil, Nil, "", pending.timestamp, pending.value)
           tagged == addMetricValueWithTags(metrics, TypeCluster, "nodes/count", Nil, Nil, Nil, Nil, "", pending.timestamp, pending.value, [instance_group |-> "m5.large"])
           rated == addMetricValueRate([previous |-> previous, metrics |-> metrics], tickTime, TypeNode, "", "n1", "cpu/usage_rate", "n1", Nil, Nil, Nil, "", pending.timestamp, pending.value, MilliMultiplier)
       IN  CASE pending.path = "addMetricValue" -> metrics' = plain /\ UNCHANGED previous
             [] pending.path = "addMetricValueWithTags" -> metrics' = tagged /\ UNCHANGED previous
             [] pending.path = "addMetricValueRate" -> metrics' = rated.metrics /\ previous' = rated.previous
    /\ returned' = [op |-> "emit"]
    /\ pending' = [op |-> "none"]
    /\ last' = pending
    /\ UNCHANGED <<tickTime, backoffVars, scrapeVars>>

NextEmit == Emit

SpecEmit == InitEmit /\ [][NextEmit]_vars

\* ---------------------------------------------- rate calculator: claims
\* The last step was a call of addMetricValueRate.
RateDone == last.op = "rate"

\* That call found an entry for its key in the rate table.
RateHadPrevious == RateDone /\ last.key \in DOMAIN last.before

\* The entry (t0, v0) it found.
RatePrev == last.before[last.key]

\* Its duration t1 - t0.
RateDuration == last.timestamp - RatePrev.Timestamp

\* That call appended one record to the batch.
RateEmitted == RateDone /\ Len(metrics) = Len(last.batch) + 1

\* The record it appended.
RateRecord == metrics[Len(metrics)]

\* C1: with (t0, v0) stored, an observation (t1, v1) with t1 - t0 > 1 s and
\* v1 >= v0 emits a record of value multiplier * (v1 - v0) / (t1 - t0), the
\* exact quotient truncated to an integer.
C1_RateValue ==
    (RateHadPrevious /\ RateDuration > Second /\ last.value >= RatePrev.Value)
        => /\ RateEmitted
           /\ RateRecord.Value = (last.site.multiplier * (last.value - RatePrev.Value)) \div RateDuration

\* C2 (reset law): with v1 < v0 and t1 - t0 > 1 s the emitted rate is
\* multiplier * v1 / (t1 - t0): the baseline is 0, never the stored value.
C2_ResetLaw ==
    (RateHadPrevious /\ RateDuration > Second /\ last.value < RatePrev.Value)
        => /\ RateEmitted
           /\ RateRecord.Value = (last.site.multiplier * last.value) \div RateDuration

\* C3: after a rate computation for key k with the observation (t1, v1),
\* the rate table maps k to exactly (t1, v1), whatever the outcome of the
\* computation, and every other key is as it was.
C3_StoredUnconditionally ==
    RateDone =>
        previous = [k \in DOMAIN last.before \cup {last.key} |->
                       IF k = last.key
                       THEN [Timestamp |-> last.timestamp, Value |-> last.value]
                       ELSE last.before[k]]

\* C3 witness: a computation that failed on an older timestamp, with the
\* other key in the table, and the new point stored all the same.
C3_Witness ==
    /\ RateHadPrevious
    /\ last.timestamp < RatePrev.Timestamp
    /\ Cardinality(DOMAIN previous) = 2
    /\ previous[last.key].Timestamp = last.timestamp
    /\ previous[last.key].Value # RatePrev.Value

\* C4: no rate record is appended when the table has no previous entry for
\* the key, or when t1 - t0 <= 1 s (older timestamps included).
C4_NoRateWithoutBaseline ==
    (RateDone /\ (~RateHadPrevious \/ RateDuration <= Second))
        => metrics = last.batch

\* C4 witness: a previous entry exactly one second older, and nothing
\* appended.
C4_Witness ==
    /\ RateHadPrevious
    /\ RateDuration = Second
    /\ last.value > RatePrev.Value
    /\ metrics = last.batch

\* C9, as claimed: from one store to the next the timestamp stored for a key
\* never decreases.
C9_TimestampNeverDecreases ==
    RateHadPrevious => previous[last.key].Timestamp >= RatePrev.Timestamp

\* C9, amended: the stored timestamp is the timestamp of the latest
\* observation; a store that emits a rate advances it by more than one
\* second, and it decreases exactly when the observation is older than the
\* stored point (no rate is emitted then).
C9_TimestampFollowsObservation ==
    RateHadPrevious =>
        /\ RateEmitted => previous[last.key].Timestamp > RatePrev.Timestamp + Second
        /\ (previous[last.key].Timestamp < RatePrev.Timestamp)
               <=> (last.timestamp < RatePrev.Timestamp)
        /\ (previous[last.key].Timestamp < RatePrev.Timestamp) => ~RateEmitted

\* C9 witness: a store that moved the key's timestamp backwards.
C9_Witness ==
    /\ RateHadPrevious
    /\ previous[last.key].Timestamp < RatePrev.Timestamp
    /\ ~RateEmitted

\* C13, as claimed: two observations of one key exactly one second apart
\* yield a rate record, of value multiplier * (v1 - v0) / (t1 - t0) when
\* the counter grew and of value multiplier * v1 / (t1 - t0), against the
\* baseline 0, when it fell.
C13_RateAtOneSecond ==
    (RateHadPrevious /\ RateDuration = Second)
        => /\ RateEmitted
           /\ RateRecord.Value = (last.site.multiplier * (last.value - (IF last.value < RatePrev.Value THEN 0 ELSE RatePrev.Value))) \div RateDuration

\* C13, amended: two observations of one key exactly one second apart
\* yield no rate record, whether the counter grew or fell; the batch is
\* as it was and the second observation is the key's new baseline.
C13_NoRateAtOneSecond ==
    (RateHadPrevious /\ RateDuration = Second)
        => /\ ~RateEmitted
           /\ metrics = last.batch
           /\ previous[last.key] = [Timestamp |-> last.timestamp, Value |-> last.value]

\* C13 witness: a counter that fell, observed exactly one second after the
\* stored point: nothing is appended and the new point is stored.
C13_Witness ==
    /\ RateHadPrevious
    /\ RateDuration = Second
    /\ last.value < RatePrev.Value
    /\ last.value > 0
    /\ metrics = last.batch
    /\ previous[last.key].Value = last.value

\* The last step was the collection that starts a cycle.
CycleDone == last.op = "cycle"

\* C18 (garbage collection): after the collection that starts a cycle, read
\* at wall-clock time now, the rate table has no entry with
\* now - timestamp > 1 hour, it has no entry it did not have before, and
\* every entry of age at most 1 hour is there unchanged.
C18_GarbageCollected ==
    CycleDone =>
        /\ \A k \in DOMAIN previous : ~(last.now - previous[k].Timestamp > Hour)
        /\ DOMAIN previous \subseteq DOMAIN last.before
        /\ \A k \in DOMAIN last.before :
              (last.now - last.before[k].Timestamp <= Hour) => (k \in DOMAIN previous /\ previous[k] = last.before[k])

\* C18 witness: a collection that removed an entry older than an hour and
\* kept the one that was exactly an hour old.
C18_Witness ==
    /\ CycleDone
    /\ Cardinality(DOMAIN last.before) = 2
    /\ Cardinality(DOMAIN previous) = 1
    /\ \A k \in DOMAIN previous : last.now - previous[k].Timestamp = Hour
    /\ \E k \in DOMAIN last.before : last.now - last.before[k].Timestamp > Hour

\* C19 (timestamp substitution), as claimed: a record emitted from a zero
\* source timestamp carries tickTime, on every emission path, the tagged
\* nodes/count records included; a record emitted from any other source
\* timestamp carries that timestamp; so with a non-zero tickTime no record
\* has a zero timestamp.
C19_ZeroTimestampSubstituted ==
    returned.op = "emit" =>
        \A i \in DOMAIN metrics :
            /\ last.timestamp = 0 => metrics[i].Timestamp = tickTime
            /\ last.timestamp # 0 => metrics[i].Timestamp = last.timestamp
            /\ tickTime # 0 => metrics[i].Timestamp # 0

\* The call met a counter reset: the new value is below the stored one.
RateReset == RateHadPrevious /\ last.value < RatePrev.Value

\* C20, as claimed: on a counter reset no rate record is emitted for the
\* key, and the new point is stored as the baseline.
C20_RateDroppedOnReset ==
    RateReset =>
        /\ ~RateEmitted
        /\ previous[last.key] = [Timestamp |-> last.timestamp, Value |-> last.value]

\* C20, amended: a counter reset does not by itself drop the rate. When
\* the new point is more than one second newer than the stored one, one
\* rate record is emitted for the key, computed in the machine word
\* against the baseline 0 and stamped with the observation's timestamp;
\* when it is not, nothing is emitted. In both cases the new point is
\* stored as the baseline.
C20_ResetRatedAgainstZero ==
    RateReset =>
        /\ RateEmitted <=> RateDuration > Second
        /\ RateEmitted =>
              /\ RateRecord.Name = last.site.measurement
              /\ RateRecord.Timestamp = last.timestamp
              /\ RateRecord.Value = Quot(Wrap(last.site.multiplier * last.value), RateDuration)
        /\ ~RateEmitted => metrics = last.batch
        /\ previous[last.key] = [Timestamp |-> last.timestamp, Value |-> last.value]

\* C20 witness: a counter that fell to a value above 0, observed more than
\* a second after the stored point: a rate record was emitted and the new
\* point is the baseline.
C20_Witness ==
    /\ RateReset
    /\ last.value > 0
    /\ RateDuration > Second
    /\ RateEmitted
    /\ RateRecord.Name = last.site.measurement
    /\ previous[last.key].Value = last.value

\* The baseline of the rate that call emitted: the stored value, or 0 after
\* a counter reset.
RateBaseline == IF RatePrev.Value > last.value THEN 0 ELSE RatePrev.Value

\* The product multiplier * (v1 - baseline) of that call, in mathematical
\* integers.
RateProduct == last.site.multiplier * (last.value - RateBaseline)

\* C36 (no wrap-around): every rate record emitted for non-negative counter
\* values carries the exact mathematical quotient
\* multiplier * (v1 - v0) / dt, truncated to an integer, for both
\* multipliers of the scraper.
C36_NoWrapAround ==
    (RateEmitted /\ RateHadPrevious /\ last.value >= 0 /\ RatePrev.Value >= 0)
        => RateRecord.Value = Quot(RateProduct, RateDuration)

\* C36, as far as the code goes: the emitted rate is the exact quotient
\* whenever the product fits the machine word, and the quotient of the
\* wrapped product otherwise.
C36_ExactWhileProductFits ==
    (RateEmitted /\ RateHadPrevious)
        => /\ RateProduct <= MaxInt => RateRecord.Value = Quot(RateProduct, RateDuration)
           /\ RateRecord.Value = Quot(Wrap(RateProduct), RateDuration)

\* C36 failing input reached: a counter that grew by 2 over three seconds,
\* rated with the multiplier 1000, whose product left the machine word.
C36_ProductWrapped ==
    /\ RateEmitted
    /\ RateHadPrevious
    /\ last.site.multiplier = MilliMultiplier
    /\ RatePrev = KubeletValue(1, 0)
    /\ last.timestamp = 4
    /\ last.value = 2
    /\ RateProduct > MaxInt
    /\ RateRecord.Value # Quot(RateProduct, RateDuration)

\* C37 (rates are not negative): every rate record emitted for non-negative
\* counter values has a value >= 0, resets and out-of-order timestamps
\* included.
C37_RateNotNegative ==
    (RateEmitted /\ RateHadPrevious /\ last.value >= 0 /\ RatePrev.Value >= 0)
        => RateRecord.Value >= 0

\* C37, as far as the code goes: a rate is emitted only over a duration of
\* more than a second and from a difference that is not negative, so that
\* a negative rate comes from a product that left the machine word.
C37_NegativeOnlyByWrap ==
    (RateEmitted /\ RateHadPrevious)
        => /\ RateDuration > Second
           /\ last.value - RateBaseline >= 0
           /\ RateRecord.Value < 0 => RateProduct > MaxInt

\* C37 failing input reached: a negative rate record for a counter that
\* grew from 0 to 2.
C37_NegativeRate ==
    /\ RateEmitted
    /\ RateHadPrevious
    /\ RatePrev.Value = 0
    /\ last.value = 2
    /\ RateDuration > Second
    /\ RateRecord.Value < 0

\* ------------------------------------------- the rate table and its mutex
\* The keys of the rate table two node tasks work on, one each.
TableKeys == <<getKey(TypeNode, "", "n1", "cpu/usage_rate"), getKey(TypeNode, "", "n2", "cpu/usage_rate")>>

\* The party running collectGarbage: the GetMetrics call itself.
Collector == 0

\* Whether a party holds previousMutex.
Holds(party) == scrape.mutex = <<party>>

\* A cycle of GetMetrics over a table holding both keys: collectGarbage
\* first, then the node tasks, each rating one observation of its key.
InitTable ==
    /\ previous \in [{TableKeys[1], TableKeys[2]} -> {KubeletValue(1, 1), KubeletValue(MaxTime, 2)}]
    /\ metrics = <<>>
    /\ tickTime = 0
    /\ \E now \in Nows : scrape = [pc |-> "collectGarbage", mutex |-> <<>>, now |-> now, left |-> DOMAIN previous]
    /\ tasks = [i \in DOMAIN TableKeys |-> [pc |-> "getPreviousValue", key |-> TableKeys[i], found |-> ErrNil]]
    /\ result = [op |-> "none"]
    /\ last = [op |-> "init"]
    /\ BackoffIdle
    /\ KubeIdle

\* One iteration of the range loop of collectGarbage: it reads the entry
\* and deletes it when it is more than an hour old. The function takes no
\* lock.
GarbageEntry(key) ==
    /\ scrape.pc = "collectGarbage"
    /\ key \in scrape.left
    /\ LET stale == scrape.now - previous[key].Timestamp > Hour
       IN  /\ previous' = IF stale THEN [k \in DOMAIN previous \ {key} |-> previous[k]] ELSE previous
           /\ last' = [op |-> "table", by |-> "collectGarbage", access |-> IF stale THEN "delete" ELSE "read",
                       key |-> key, held |-> Holds(Collector)]
    /\ scrape' = [scrape EXCEPT !.left = @ \ {key}, !.pc = IF scrape.left = {key} THEN "tasks" ELSE @]
    /\ UNCHANGED <<metrics, tickTime, tasks, result, backoffVars, kubeVars>>

\* kubelet.previousMutex.Lock() of getPreviousValue or updatePreviousValue.
TableLock(i) ==
    /\ scrape.pc = "tasks"
    /\ tasks[i].pc \in {"getPreviousValue", "updatePreviousValue"}
    /\ scrape.mutex = <<>>
    /\ scrape' = [scrape EXCEPT !.mutex = <<i>>]
    /\ tasks' = [tasks EXCEPT ![i].pc = IF @ = "getPreviousValue" THEN "lookup" ELSE "store"]
    /\ last' = [op |-> "lock", by |-> i]
    /\ UNCHANGED <<rateVars, result, backoffVars, kubeVars>>

\* The body of getPreviousValue and its deferred Unlock.
TableLookup(i) ==
    /\ tasks[i].pc = "lookup"
    /\ tasks' = [tasks EXCEPT ![i].pc = "updatePreviousValue", ![i].found = getPreviousValue(previous, tasks[i].key).err]
    /\ last' = [op |-> "table", by |-> "getPreviousValue", access |-> "read", key |-> tasks[i].key, held |-> Holds(i)]
    /\ scrape' = [scrape EXCEPT !.mutex = <<>>]
    /\ UNCHANGED <<rateVars, result, backoffVars, kubeVars>>

\* The body of updatePreviousValue and its deferred Unlock.
TableStore(i, value) ==
    /\ tasks[i].pc = "store"
    /\ previous' = updatePreviousValue(previous, tasks[i].key, value)
    /\ tasks' = [tasks EXCEPT ![i].pc = "done"]
    /\ last' = [op |-> "table", by |-> "updatePreviousValue", access |-> "write", key |-> tasks[i].key, held |-> Holds(i)]
    /\ scrape' = [scrape EXCEPT !.mutex = <<>>]
    /\ UNCHANGED <<metrics, tickTime, result, backoffVars, kubeVars>>

NextTable ==
    \/ \E key \in DOMAIN previous : GarbageEntry(key)
    \/ \E i \in DOMAIN tasks : TableLock(i)
    \/ \E i \in DOMAIN tasks : TableLookup(i)
    \/ \E i \in DOMAIN tasks, value \in 1..MaxValue : TableStore(i, KubeletValue(scrape.now, value))

SpecTable == InitTable /\ [][NextTable]_vars

\* C25 (rate table under its mutex), as claimed: every read, write and
\* delete of the rate table - lookup, store, garbage collection - is made
\* by a party holding the rate-table mutex.
C25_TableAccessUnderMutex == last.op = "table" => last.held

\* ------------------------------------------------------------ withBackoff
\* --kubelet-backoff-max-retries, --kubelet-backoff-sleep (milliseconds).
DefaultMaxRetries == 5
DefaultBackoffSleep == 300

\* The largest max_retries the configurations of the model give.
MaxRetriesBound == 12

\* The outcomes of kubeletClient.GetBytes: a response, the error "the server
\* could not find the requested resource", any other error.
FetchOutcomes == {"ok", "notfound", "error"}

\* The mutant of the closures: the not-found error is returned like any
\* other.
fetchFn_NotFoundIsError(outcome) ==
    CASE outcome = "ok" -> [err |-> ErrNil, payload |-> "response"]
      [] OTHER -> [err |-> "unable to get", payload |-> "none"]

\* The closures GetMetrics hands to withBackoff: the not-found error is
\* swallowed (an empty payload, a nil error), any other error is returned.
fetchFn(outcome) ==
    CASE outcome = "ok" -> [err |-> ErrNil, payload |-> "response"]
      [] outcome = "notfound" -> [err |-> ErrNil, payload |-> "empty"]
      [] OTHER -> [err |-> "unable to get", payload |-> "none"]

\* The mutant of the timeout: it grows with every attempt.
backoffTimeout_Linear(sleep, n) == sleep * n

\* timeout := sleep * time.Duration((try-1)%10+1)
backoffTimeout(sleep, n) == sleep * (((n - 1) % 10) + 1)

\* if try > maxRetry: no more retrying.
\* The mutant: the comparison an attempt budget of maxRetry would make.
retriesExhausted_AtBudget(n, maxRetry) == n >= maxRetry

retriesExhausted(n, maxRetry) == n > maxRetry

InitBackoff ==
    /\ timeouts \in [sleep : {DefaultBackoffSleep}, maxRetries : (0 - 1) .. MaxRetriesBound]
    /\ try = 0 /\ boPc = "idle" /\ boCalls = <<>> /\ boSleeps = <<>> /\ boRet = "none"
    /\ last = [op |-> "init"]
    /\ RateIdle
    /\ KubeIdle
    /\ ScrapeIdle

\* withBackoff is called: maxRetry is read, try := 0.
BackoffCall ==
    /\ boPc \in {"idle", "done"}
    /\ try' = 0
    /\ boPc' = "loop"
    /\ boCalls' = <<>>
    /\ boSleeps' = <<>>
    /\ boRet' = "none"
    /\ last' = [op |-> "call"]
    /\ UNCHANGED <<timeouts, rateVars, kubeVars, scrapeVars>>

\* One turn of the loop up to its return or its sleep: try++, fn().
BackoffAttempt(outcome) ==
    /\ boPc = "loop"
    /\ try' = try + 1
    /\ boCalls' = Append(boCalls, outcome)
    /\ LET err == fetchFn(outcome).err
       IN  IF err = ErrNil
           THEN boPc' = "done" /\ boRet' = ErrNil /\ UNCHANGED boSleeps
           ELSE IF retriesExhausted(try', timeouts.maxRetries)
           THEN boPc' = "done" /\ boRet' = "max retries exceeded" /\ UNCHANGED boSleeps
           ELSE /\ boPc' = "sleep"
                /\ boSleeps' = Append(boSleeps, backoffTimeout(timeouts.sleep, try'))
                /\ UNCHANGED boRet
    /\ last' = [op |-> "attempt", outcome |-> outcome]
    /\ UNCHANGED <<timeouts, rateVars, kubeVars, scrapeVars>>

\* time.Sleep(timeout) returns.
BackoffWake ==
    /\ boPc = "sleep"
    /\ boPc' = "loop"
    /\ last' = [op |-> "wake"]
    /\ UNCHANGED <<timeouts, try, boCalls, boSleeps, boRet, rateVars, kubeVars, scrapeVars>>

BackoffStep == \E outcome \in FetchOutcomes : BackoffAttempt(outcome)

NextBackoff == BackoffCall \/ BackoffStep \/ BackoffWake

\* A call that was started runs on: every fetch returns (the HTTP client has
\* a timeout) and every sleep ends.
SpecBackoff ==
    InitBackoff /\ [][NextBackoff]_vars /\ WF_vars(BackoffStep) /\ WF_vars(BackoffWake)

\* ------------------------------------------------- withBackoff: claims
BackoffRunning == boPc \in {"loop", "sleep"}
BackoffDone == boPc = "done"
BackoffFailed(i) == fetchFn(boCalls[i]).err # ErrNil

\* The invocations a configuration allows: one more than max_retries.
BackoffBudget == (IF timeouts.maxRetries > 0 THEN timeouts.maxRetries ELSE 0) + 1

\* C10, as claimed: (for a positive max_retries) the wrapped fetch is invoked
\* at most max_retries times in total.
C10_AtMostMaxRetriesCalls ==
    timeouts.maxRetries >= 1 => Len(boCalls) <= timeouts.maxRetries

\* What holds of the invocations of a call at every moment.
BackoffSafe ==
    /\ Len(boCalls) <= BackoffBudget
    /\ \A i \in 1 .. Len(boCalls) - 1 : BackoffFailed(i)
    /\ BackoffRunning => \A i \in 1 .. Len(boCalls) : BackoffFailed(i)
    /\ BackoffDone =>
          /\ Len(boCalls) >= 1
          /\ boRet = ErrNil <=> ~BackoffFailed(Len(boCalls))
          /\ boRet = "max retries exceeded" <=>
                (Len(boCalls) = BackoffBudget /\ \A i \in 1 .. Len(boCalls) : BackoffFailed(i))

\* C10, amended: withBackoff always terminates; it invokes the wrapped fetch
\* at most max_retries + 1 times (the first attempt and max_retries retries:
\* 6 by default), returns nil as soon as one invocation succeeds, and returns
\* 'max retries exceeded' when all max_retries + 1 invocations fail.
C10_BoundedRetry == []BackoffSafe /\ (BackoffRunning ~> BackoffDone)

\* C10 witness: with the default of 5 retries, a call that failed six times
\* and returned the error.
C10_Witness ==
    /\ timeouts.maxRetries = DefaultMaxRetries
    /\ BackoffDone
    /\ Len(boCalls) = DefaultMaxRetries + 1
    /\ boRet = "max retries exceeded"

\* C33 (backoff sleep): the sleep after the failed attempt number k is
\* base_sleep * (((k - 1) mod 10) + 1) - once to ten times base_sleep,
\* then once again -, so it is never 0 and never more than ten times
\* base_sleep; a sleep follows every failed attempt but the final one,
\* after which the call returns.
C33_SleepSchedule ==
    /\ \A k \in DOMAIN boSleeps :
          /\ BackoffFailed(k)
          /\ boSleeps[k] = timeouts.sleep * (((k - 1) % 10) + 1)
          /\ boSleeps[k] > 0
          /\ boSleeps[k] <= 10 * timeouts.sleep
          /\ k > 10 => boSleeps[k] = boSleeps[k - 10]
    /\ BackoffRunning => Len(boSleeps) = Len(boCalls)
    /\ BackoffDone => Len(boSleeps) = Len(boCalls) - 1

\* C33 witness: with 11 retries and the default 300 ms, twelve attempts
\* failed: the tenth sleep was 3000 ms, the eleventh 300 ms again, and
\* none followed the twelfth failure.
C33_Witness ==
    /\ timeouts = [sleep |-> DefaultBackoffSleep, maxRetries |-> 11]
    /\ BackoffDone
    /\ boRet = "max retries exceeded"
    /\ Len(boCalls) = 12
    /\ Len(boSleeps) = 11
    /\ boSleeps[1] = 300 /\ boSleeps[2] = 600 /\ boSleeps[10] = 3000 /\ boSleeps[11] = 300

maskedValue == "**MASKED**"

\* The longest environment and argument lists of the sample containers.
MaxEnvVars == 2
MaxArgs == 1

\* The mutant of maskEnvVars: every value becomes the mask.
maskEnvVars_MaskEmpty(env) ==
    [i \in 1 .. Len(env) |-> [env[i] EXCEPT !.Value = maskedValue]]

\* maskEnvVars: a list of the same length; a non-empty value becomes the mask.
maskEnvVars(env) ==
    [i \in 1 .. Len(env) |-> IF env[i].Value # "" THEN [env[i] EXCEPT !.Value = maskedValue] ELSE env[i]]

\* maskArgs: a list of the same length, every element the mask.
maskArgs(args) == [i \in 1 .. Len(args) |-> maskedValue]

\* maskContainers: a new list; each element a copy with Env and Args masked.
maskContainers(containers) ==
    [i \in 1 .. Len(containers) |-> [containers[i] EXCEPT !.Env = maskEnvVars(@), !.Args = maskArgs(@)]]

\* maskPodSpec(podSpec *kv1.PodSpec): assigns the two masked lists to the
\* pod spec the pointer refers to.
maskPodSpec(podSpec) ==
    [podSpec EXCEPT !.Containers = maskContainers(@), !.InitContainers = maskContainers(@)]

\* The workload kinds of the list getters.
ListKinds == {"ReplicationController", "Pod", "Deployment", "StatefulSet", "DaemonSet", "ReplicaSet", "CronJob"}

\* Whether the pod template of a list element is held by pointer.  It is for
\* kv1.ReplicationControllerSpec (Template *PodTemplateSpec); the apps/v1beta2
\* and batch/v1beta1 specs hold it as a struct value.
templateIsPointer(kind) == kind = "ReplicationController"

\* for _, item := range list.Items { maskPodSpec(&item.Spec.Template.Spec) }
\* item is a copy of the element.  Behind a pointer the template is shared
\* with the element, which is masked in place; a struct-valued template is
\* masked in the copy only, and the copy is dropped with the iteration.
maskItems(kind, items) ==
    LET item == [i \in 1 .. Len(items) |-> maskPodSpec(items[i])]
    IN  IF templateIsPointer(kind) THEN item ELSE items

\* The list getters: the platform's list, or its error.
GetPods(response) ==
    IF response.err # ErrNil THEN [items |-> <<>>, err |-> "unable to retrieve pods"]
    ELSE [items |-> response.items, err |-> ErrNil]

GetReplicationControllers(response) ==
    IF response.err # ErrNil THEN [items |-> <<>>, err |-> "unable to retrieve replication controllers"]
    ELSE [items |-> maskItems("ReplicationController", response.items), err |-> ErrNil]

GetDeployments(response) ==
    IF response.err # ErrNil THEN [items |-> <<>>, err |-> "unable to retrieve deployments"]
    ELSE [items |-> maskItems("Deployment", response.items), err |-> ErrNil]

GetStatefulSets(response) ==
    IF response.err # ErrNil THEN [items |-> <<>>, err |-> "unable to retrieve stateful sets"]
    ELSE [items |-> maskItems("StatefulSet", response.items), err |-> ErrNil]

GetDaemonSets(response) ==
    IF response.err # ErrNil THEN [items |-> <<>>, err |-> "unable to retrieve daemon sets"]
    ELSE [items |-> maskItems("DaemonSet", response.items), err |-> ErrNil]

GetReplicaSets(response) ==
    IF response.err # ErrNil THEN [items |-> <<>>, err |-> "unable to retrieve replica sets"]
    ELSE [items |-> maskItems("ReplicaSet", response.items), err |-> ErrNil]

GetCronJobs(response) ==
    IF response.err # ErrNil THEN [items |-> <<>>, err |-> "unable to retrieve cron jobs"]
    ELSE [items |-> maskItems("CronJob", response.items), err |-> ErrNil]

getList(kind, response) ==
    CASE kind = "Pod" -> GetPods(response)
      [] kind = "ReplicationController" -> GetReplicationControllers(response)
      [] kind = "Deployment" -> GetDeployments(response)
      [] kind = "StatefulSet" -> GetStatefulSets(response)
      [] kind = "DaemonSet" -> GetDaemonSets(response)
      [] kind = "ReplicaSet" -> GetReplicaSets(response)
      [] kind = "CronJob" -> GetCronJobs(response)

\* Sample pod specs of the platform's responses.
SeqsUpTo(S, n) == UNION {[1 .. k -> S] : k \in 0 .. n}
EnvValues == {"", "hunter2", maskedValue}
WebResources == [Requests |-> [cpu |-> 250, memory |-> 64], Limits |-> [cpu |-> 500, memory |-> 128]]
ProxyResources == [Requests |-> [cpu |-> 100, memory |-> 32], Limits |-> [cpu |-> 0, memory |-> 0]]
SampleEnvs == SeqsUpTo({[Name |-> "PASSWORD", Value |-> v] : v \in EnvValues}, MaxEnvVars)
SampleArgs == SeqsUpTo({"--token=abc"}, MaxArgs)
SampleContainers == {[Name |-> "web", Image |-> "web:1", Env |-> e, Args |-> a] : e \in SampleEnvs, a \in SampleArgs}
Sidecar == [Name |-> "proxy", Image |-> "proxy:2", Env |-> <<[Name |-> "TOKEN", Value |-> "t0k3n"]>>, Args |-> <<"--key=k">>]
SamplePodSpecs ==
    {[Containers |-> cs, InitContainers |-> is] :
        cs \in {<<c>> : c \in SampleContainers} \cup {<<c, Sidecar>> : c \in SampleContainers},
        is \in {<<>>, <<Sidecar>>}}
SampleLists == {<<>>} \cup {<<p>> : p \in SamplePodSpecs} \cup {<<[Containers |-> <<Sidecar>>, InitContainers |-> <<>>], p>> : p \in SamplePodSpecs}
ListResponses == {[items |-> l, err |-> ErrNil] : l \in SampleLists} \cup {[items |-> <<>>, err |-> "platform error"]}

InitMask ==
    /\ pending \in {[op |-> "list", kind |-> kind, response |-> response] : kind \in ListKinds, response \in ListResponses}
    /\ returned = [op |-> "none"]
    /\ last = [op |-> "init"]
    /\ RateIdle
    /\ BackoffIdle
    /\ ScrapeIdle

\* The pending list getter is called and the platform answers.
ListWorkloads ==
    /\ pending.op = "list"
    /\ returned' = [op |-> "list", kind |-> pending.kind] @@ getList(pending.kind, pending.response)
    /\ pending' = [op |-> "none"]
    /\ last' = pending
    /\ UNCHANGED <<rateVars, backoffVars, scrapeVars>>

NextMask == ListWorkloads

SpecMask == InitMask /\ [][NextMask]_vars

\* ---------------------------------------------------- secret masking: claims
ContainerMasked(c) ==
    /\ \A i \in 1 .. Len(c.Env) : c.Env[i].Value \in {"", maskedValue}
    /\ \A i \in 1 .. Len(c.Args) : c.Args[i] = maskedValue

PodSpecMasked(p) ==
    /\ \A i \in 1 .. Len(p.Containers) : ContainerMasked(p.Containers[i])
    /\ \A i \in 1 .. Len(p.InitContainers) : ContainerMasked(p.InitContainers[i])

\* C6 (secret masking): in every workload list a list getter returns, every
\* non-empty environment value and every argument of every container is the
\* mask token.
C6_ReturnedListsMasked ==
    (returned.op = "list" /\ returned.err = ErrNil)
        => \A i \in 1 .. Len(returned.items) : PodSpecMasked(returned.items[i])

\* ------------------------------------------------ maskContainers at work
\* The environment variables and the arguments of the container lists
\* maskContainers is given.
MaskEnvs == SeqsUpTo({[Name |-> n, Value |-> v] : n \in {"USER", "PASSWORD"}, v \in EnvValues}, MaxEnvVars)
MaskArgs == SeqsUpTo({"--token=abc", maskedValue}, MaxArgs)

\* A container list: none, one container, or one next to a second one.
MaskLists ==
    LET web == {[Name |-> "web", Image |-> "web:1", Resources |-> WebResources, Env |-> e, Args |-> a] : e \in MaskEnvs, a \in MaskArgs}
        proxy == [Name |-> "proxy", Image |-> "proxy:2", Resources |-> ProxyResources, Env |-> <<[Name |-> "TOKEN", Value |-> "t0k3n"]>>, Args |-> <<"--key=k">>]
    IN  {<<>>} \cup {<<c>> : c \in web} \cup {<<c, proxy>> : c \in web} \cup {<<proxy, c>> : c \in web}

InitMaskContainers ==
    /\ pending \in {[op |-> "mask", containers |-> l] : l \in MaskLists}
    /\ returned = [op |-> "none"]
    /\ last = [op |-> "init"]
    /\ RateIdle
    /\ BackoffIdle
    /\ ScrapeIdle

\* maskContainers is applied to the pending list.
MaskContainers ==
    /\ pending.op = "mask"
    /\ returned.op = "none"
    /\ returned' = [op |-> "mask", masked |-> maskContainers(pending.containers), again |-> <<>>, twice |-> FALSE]
    /\ last' = [op |-> "mask"]
    /\ UNCHANGED <<pending, rateVars, backoffVars, scrapeVars>>

\* maskContainers is applied to the list it returned.
MaskContainersAgain ==
    /\ returned.op = "mask"
    /\ ~returned.twice
    /\ returned' = [returned EXCEPT !.again = maskContainers(returned.masked), !.twice = TRUE]
    /\ last' = [op |-> "maskAgain"]
    /\ UNCHANGED <<pending, rateVars, backoffVars, scrapeVars>>

NextMaskContainers == MaskContainers \/ MaskContainersAgain

SpecMaskContainers == InitMaskContainers /\ [][NextMaskContainers]_vars

\* ------------------------------------------ maskContainers at work: claims
\* What masking keeps of a container, and where the mask may stand.
StructureKept(c, m) ==
    /\ m.Name = c.Name /\ m.Image = c.Image /\ m.Resources = c.Resources
    /\ Len(m.Env) = Len(c.Env)
    /\ \A j \in DOMAIN c.Env :
          /\ m.Env[j].Name = c.Env[j].Name
          /\ c.Env[j].Value = "" => m.Env[j].Value = ""
          /\ m.Env[j].Value = maskedValue => c.Env[j].Value # ""
          /\ m.Env[j].Value # maskedValue => m.Env[j].Value = c.Env[j].Value
    /\ Len(m.Args) = Len(c.Args)

\* C32 (masking preserves structure): maskContainers returns as many
\* containers as it was given, in their order, each with its name, image
\* and resources, with as many environment variables of the same names in
\* the same order and as many arguments; an empty environment value stays
\* empty, the mask stands only where a non-empty value or an argument
\* stood, and masking the masked list gives the same list.
C32_MaskingPreservesStructure ==
    returned.op = "mask" =>
        /\ Len(returned.masked) = Len(pending.containers)
        /\ \A i \in DOMAIN pending.containers : StructureKept(pending.containers[i], returned.masked[i])
        /\ returned.twice => returned.again = returned.masked

\* C32 witness: a list of two containers was masked twice; the first has
\* an empty and a non-empty environment value and an argument.
C32_Witness ==
    /\ returned.op = "mask"
    /\ returned.twice
    /\ Len(pending.containers) = 2
    /\ pending.containers[1].Env = <<[Name |-> "USER", Value |-> ""], [Name |-> "PASSWORD", Value |-> "hunter2"]>>
    /\ pending.containers[1].Args = <<"--token=abc">>
    /\ returned.masked[1].Env = <<[Name |-> "USER", Value |-> ""], [Name |-> "PASSWORD", Value |-> maskedValue]>>
    /\ returned.masked[1].Args = <<maskedValue>>
    /\ returned.masked[2].Name = "proxy"

\* ------------------------------------------------------------- GetResources
\* The eight tasks of GetResources in the order they are started, the key
\* each writes in rawResources and the kind of the resources it appends
\* ("" for the limit ranges, which it only hands back).
ResourceTasks ==
    << [list |-> "ReplicationController", key |-> "controllers", kind |-> "ReplicationController", err |-> "unable to get replication controllers"],
       [list |-> "Pod", key |-> "pods", kind |-> "OrphanPod", err |-> "unable to get pods"],
       [list |-> "Deployment", key |-> "deployments", kind |-> "Deployment", err |-> "unable to get deployments"],
       [list |-> "StatefulSet", key |-> "statefulSets", kind |-> "StatefulSet", err |-> "unable to get statefulSets"],
       [list |-> "DaemonSet", key |-> "daemonSets", kind |-> "DaemonSet", err |-> "unable to get daemonSets"],
       [list |-> "ReplicaSet", key |-> "replicaSets", kind |-> "ReplicaSet", err |-> "unable to get replicasets"],
       [list |-> "CronJob", key |-> "cronJobs", kind |-> "CronJob", err |-> "unable to get cron jobs"],
       [list |-> "LimitRange", key |-> "limitRanges", kind |-> "", err |-> "unable to get limitRanges"] >>

\* The mutant of group.Wait(): it returns as soon as a task has failed.
groupJoined_OnFirstError(ts) == (\E k \in DOMAIN ts : ts[k].pc = "failed") \/ (\A k \in DOMAIN ts : ts[k].pc \in {"done", "failed"})

\* group.Wait() of an errgroup.Group without context: every function
\* started with Go has returned.
groupJoined(ts) == \A k \in DOMAIN ts : ts[k].pc \in {"done", "failed"}

\* GetResources has started its eight tasks.
InitResources ==
    /\ scrape = [pc |-> "resources", err |-> ErrNil, rawResources |-> {}, resources |-> {}]
    /\ tasks = [k \in DOMAIN ResourceTasks |-> [pc |-> "ready"]]
    /\ result = [op |-> "none"]
    /\ last = [op |-> "init"]
    /\ RateIdle
    /\ BackoffIdle
    /\ KubeIdle

\* Task k calls its list getter: on an error it returns it, and the group
\* keeps the first error returned to it; otherwise it goes for the mutex.
ResourceList(k, failed) ==
    /\ scrape.pc = "resources"
    /\ tasks[k].pc = "ready"
    /\ tasks' = [tasks EXCEPT ![k].pc = IF failed THEN "failed" ELSE "listed"]
    /\ scrape' = IF failed /\ scrape.err = ErrNil THEN [scrape EXCEPT !.err = ResourceTasks[k].err] ELSE scrape
    /\ last' = [op |-> "list", task |-> k]
    /\ UNCHANGED <<result, rateVars, backoffVars, kubeVars>>

\* Task k, holding the mutex m, writes its list into rawResources and
\* appends its resources, and returns nil.
ResourceStore(k) ==
    /\ scrape.pc = "resources"
    /\ tasks[k].pc = "listed"
    /\ tasks' = [tasks EXCEPT ![k].pc = "done"]
    /\ scrape' = [scrape EXCEPT !.rawResources = @ \cup {ResourceTasks[k].key},
                                !.resources = @ \cup (IF ResourceTasks[k].kind = "" THEN {} ELSE {ResourceTasks[k].kind})]
    /\ last' = [op |-> "store", task |-> k]
    /\ UNCHANGED <<result, rateVars, backoffVars, kubeVars>>

\* group.Wait() returns and GetResources with it.
ResourcesReturn ==
    /\ scrape.pc = "resources"
    /\ groupJoined(tasks)
    /\ result' = [op |-> "GetResources", err |-> scrape.err, rawResources |-> scrape.rawResources, resources |-> scrape.resources]
    /\ scrape' = [scrape EXCEPT !.pc = "returned"]
    /\ last' = [op |-> "return"]
    /\ UNCHANGED <<tasks, rateVars, backoffVars, kubeVars>>

NextResources ==
    \/ \E k \in DOMAIN ResourceTasks, failed \in BOOLEAN : ResourceList(k, failed)
    \/ \E k \in DOMAIN ResourceTasks : ResourceStore(k)
    \/ ResourcesReturn

SpecResources == InitResources /\ [][NextResources]_vars

\* ----------------------------------------------------- GetResources: claims
\* The tasks that failed.
FailedTasks == {k \in DOMAIN tasks : tasks[k].pc = "failed"}

\* C21 (GetResources joins its tasks): in every interleaving GetResources
\* returns only when all eight list tasks have finished, with a non-nil
\* error if and only if at least one of them failed - the error of one of
\* the failed tasks - and with the list of every task that did not fail
\* in rawResources.
C21_ErrorIffTaskFailed ==
    result.op = "GetResources" =>
        /\ Len(tasks) = 8
        /\ \A k \in DOMAIN tasks : tasks[k].pc \in {"done", "failed"}
        /\ (result.err # ErrNil) <=> (FailedTasks # {})
        /\ result.err # ErrNil => \E k \in FailedTasks : result.err = ResourceTasks[k].err
        /\ result.rawResources = {ResourceTasks[k].key : k \in DOMAIN tasks \ FailedTasks}

\* C21 witness: GetResources has returned the error of the limit ranges,
\* the only task that failed, and the seven other lists.
C21_Witness ==
    /\ result.op = "GetResources"
    /\ FailedTasks = {8}
    /\ result.err = "unable to get limitRanges"
    /\ Cardinality(result.rawResources) = 7
    /\ "OrphanPod" \in result.resources

\* ------------------------------------------------------------- SetResources
milliCore == 1000

\* A nil pointer, and a pointer to v.
None == <<>>
Some(v) == <<v>>
Val(p) == p[1]

\* The longest container list of the sample decisions.
MaxDecisionContainers == 1

\* strings.ToLower on the kinds of the sample decisions.
toLower(kind) ==
    CASE kind = "StatefulSet" -> "statefulset"
      [] kind = "Deployment" -> "deployment"
      [] OTHER -> kind

\* Kube.GetStatefulSet: the platform's object with its pod spec masked (it is
\* reached through the pointer), or the error.
GetStatefulSet(namespace, name, platform) ==
    IF platform.getErr # ErrNil
    THEN [statefulSet |-> None, err |-> "unable to retrieve statefulset"]
    ELSE [statefulSet |-> Some([platform.statefulSet EXCEPT !.Template = maskPodSpec(@)]), err |-> ErrNil]

\* The guard of SetResources on a fetched StatefulSet: the reason to skip
\* the patch, or "" to go on.
\* The mutant: the partition is not looked at.
statefulSetGuard_IgnorePartition(statefulSet) ==
    IF statefulSet.Replicas # None /\ Val(statefulSet.Replicas) > 1
    THEN IF statefulSet.UpdateStrategy.Type = "RollingUpdate" THEN ""
         ELSE "sts replicas > 1 and Spec.UpdateStrategy not equal 'RollingUpdate'"
    ELSE ""

statefulSetGuard(statefulSet) ==
    IF statefulSet.Replicas # None /\ Val(statefulSet.Replicas) > 1
    THEN IF statefulSet.UpdateStrategy.Type = "RollingUpdate"
         THEN IF /\ statefulSet.UpdateStrategy.RollingUpdate # None
                 /\ Val(statefulSet.UpdateStrategy.RollingUpdate).Partition # None
                 /\ Val(Val(statefulSet.UpdateStrategy.RollingUpdate).Partition) # 0
              THEN "sts replicas > 1 and Spec.UpdateStrategy.RollingUpdate.Partition not equal 0"
              ELSE ""
         ELSE "sts replicas > 1 and Spec.UpdateStrategy not equal 'RollingUpdate'"
    ELSE ""

\* fmt.Sprintf("%dMi", n), and float64(n) / milliCore.
memoryQuantity(n) == [n |-> n, unit |-> "Mi"]
cpuQuantity(n) == [num |-> n, den |-> milliCore]

EmptyMap == [x \in {} |-> x]

\* The "limits" or "requests" entry of a container's resources map: absent
\* when neither memory nor cpu is set.
resourceEntry(key, rl) ==
    LET m == (IF rl.Memory # None THEN "memory" :> memoryQuantity(Val(rl.Memory)) ELSE EmptyMap)
             @@ (IF rl.CPU # None THEN "cpu" :> cpuQuantity(Val(rl.CPU)) ELSE EmptyMap)
    IN  IF rl.Memory # None \/ rl.CPU # None THEN key :> m ELSE EmptyMap

\* The resources map built for one container of the decision.
containerResources(container) ==
    resourceEntry("limits", container.Limits) @@ resourceEntry("requests", container.Requests)

containerSpec(container) == [name |-> container.Name, resources |-> containerResources(container)]

\* The mutant of the body: replicas are written whenever they are set, a
\* zero included.
patchBody_AnyReplicas(kind, totalResources) ==
    [ kind |-> kind,
      spec |-> (IF Len(totalResources.Containers) > 0
                THEN "template" :> [spec |-> [containers |-> [i \in 1 .. Len(totalResources.Containers) |-> containerSpec(totalResources.Containers[i])]]]
                ELSE EmptyMap)
               @@ (IF totalResources.Replicas # None
                   THEN "replicas" :> Val(totalResources.Replicas)
                   ELSE EmptyMap) ]

\* The body of the patch: kind, the container specs under spec.template
\* when there are any, and spec.replicas when set and positive.
patchBody(kind, totalResources) ==
    [ kind |-> kind,
      spec |-> (IF Len(totalResources.Containers) > 0
                THEN "template" :> [spec |-> [containers |-> [i \in 1 .. Len(totalResources.Containers) |-> containerSpec(totalResources.Containers[i])]]]
                ELSE EmptyMap)
               @@ (IF totalResources.Replicas # None /\ Val(totalResources.Replicas) > 0
                   THEN "replicas" :> Val(totalResources.Replicas)
                   ELSE EmptyMap) ]

\* The mutant of the first validation: nothing is rejected.
nothingToChange_Never(totalResources) == FALSE

\* The first validation of SetResources: no containers and no replicas.
nothingToChange(totalResources) == Len(totalResources.Containers) = 0 /\ totalResources.Replicas = None

\* SetResources with a patch that adds the decision's replicas to the
\* current ones instead of setting them.
SetResources_RelativeReplicas(kind, name, namespace, totalResources, platform) ==
    LET get == GetStatefulSet(namespace, name, platform)
        getReq == [verb |-> "get", resource |-> "statefulsets", namespace |-> namespace, name |-> name]
        isSts == toLower(kind) = "statefulset"
        sent == IF isSts THEN <<getReq>> ELSE <<>>
        reason == IF isSts /\ get.err = ErrNil THEN statefulSetGuard(Val(get.statefulSet)) ELSE ""
        bad == {i \in 1 .. Len(totalResources.Containers) : containerResources(totalResources.Containers[i]) = EmptyMap}
        current == IF platform.statefulSet.Replicas = None THEN 1 ELSE Val(platform.statefulSet.Replicas)
        relative == IF totalResources.Replicas = None THEN totalResources ELSE [totalResources EXCEPT !.Replicas = Some(current + Val(@))]
        patchReq == [verb |-> "patch", resource |-> kind \o "s", namespace |-> namespace, name |-> name, body |-> patchBody(kind, relative)]
    IN  IF nothingToChange(totalResources)
        THEN [skipped |-> FALSE, err |-> "invalid resources passed, nothing to change", requests |-> <<>>]
        ELSE IF isSts /\ get.err # ErrNil
        THEN [skipped |-> FALSE, err |-> "unable to get sts definition", requests |-> sent]
        ELSE IF reason # ""
        THEN [skipped |-> TRUE, err |-> reason, requests |-> sent]
        ELSE IF bad # {}
        THEN [skipped |-> FALSE, err |-> "invalid resources for container", requests |-> sent]
        ELSE [skipped |-> FALSE, err |-> platform.patchErr, requests |-> Append(sent, patchReq)]

\* Kube.SetResources against a platform that holds platform.statefulSet and
\* answers the fetch with getErr and the patch with patchErr: what is
\* returned, and the requests sent.
SetResources(kind, name, namespace, totalResources, platform) ==
    LET get == GetStatefulSet(namespace, name, platform)
        getReq == [verb |-> "get", resource |-> "statefulsets", namespace |-> namespace, name |-> name]
        isSts == toLower(kind) = "statefulset"
        sent == IF isSts THEN <<getReq>> ELSE <<>>
        reason == IF isSts /\ get.err = ErrNil THEN statefulSetGuard(Val(get.statefulSet)) ELSE ""
        bad == {i \in 1 .. Len(totalResources.Containers) : containerResources(totalResources.Containers[i]) = EmptyMap}
        patchReq == [verb |-> "patch", resource |-> kind \o "s", namespace |-> namespace, name |-> name, body |-> patchBody(kind, totalResources)]
    IN  IF nothingToChange(totalResources)
        THEN [skipped |-> FALSE, err |-> "invalid resources passed, nothing to change", requests |-> <<>>]
        ELSE IF isSts /\ get.err # ErrNil
        THEN [skipped |-> FALSE, err |-> "unable to get sts definition", requests |-> sent]
        ELSE IF reason # ""
        THEN [skipped |-> TRUE, err |-> reason, requests |-> sent]
        ELSE IF bad # {}
        THEN [skipped |-> FALSE, err |-> "invalid resources for container", requests |-> sent]
        ELSE [skipped |-> FALSE, err |-> platform.patchErr, requests |-> Append(sent, patchReq)]

\* Sample decisions and platform states.
DecisionKinds == {"Deployment", "StatefulSet", "statefulset"}
SampleRequestLimits == {[CPU |-> c, Memory |-> m] : c \in {None, Some(500)}, m \in {None, Some(128)}}
SampleDecisionContainers == {[Name |-> "web", Requests |-> r, Limits |-> l] : r \in SampleRequestLimits, l \in SampleRequestLimits}
SampleTotalResources == {[Replicas |-> r, Containers |-> cs] : r \in {None, Some(0), Some(1), Some(3)}, cs \in SeqsUpTo(SampleDecisionContainers, MaxDecisionContainers)}
SampleStatefulSets ==
    {[ Replicas |-> r, UpdateStrategy |-> [Type |-> t, RollingUpdate |-> ru],
       Template |-> [Containers |-> <<Sidecar>>, InitContainers |-> <<>>] ] :
        r \in {None, Some(1), Some(3)}, t \in {"RollingUpdate", "OnDelete"},
        ru \in {None, Some([Partition |-> None]), Some([Partition |-> Some(0)]), Some([Partition |-> Some(2)])}}
SamplePlatforms == {[statefulSet |-> sts, getErr |-> g, patchErr |-> e] : sts \in SampleStatefulSets, g \in {ErrNil, "not found"}, e \in {ErrNil, "patch rejected"}}

InitSet ==
    /\ pending \in {[op |-> "SetResources", kind |-> k, name |-> "db", namespace |-> "prod", totalResources |-> tr, platform |-> pf] :
                        k \in DecisionKinds, tr \in SampleTotalResources, pf \in SamplePlatforms}
    /\ returned = [op |-> "none"]
    /\ last = [op |-> "init"]
    /\ RateIdle
    /\ BackoffIdle
    /\ ScrapeIdle

\* The pending decision is applied.
SetResourcesCall ==
    /\ pending.op = "SetResources"
    /\ returned' = [op |-> "SetResources"] @@ SetResources(pending.kind, pending.name, pending.namespace, pending.totalResources, pending.platform)
    /\ pending' = [op |-> "none"]
    /\ last' = pending
    /\ UNCHANGED <<rateVars, backoffVars, scrapeVars>>

NextSet == SetResourcesCall

SpecSet == InitSet /\ [][NextSet]_vars


\* ------------------------------------------- SetResources, applied again
\* How often the same decision is applied in a row.
MaxApplications == 3

\* The platform's side of a strategic-merge patch of a workload: the
\* entries of a resources map merge key by key, the patch winning.
mergeResources(current, patch) ==
    [k \in DOMAIN current \cup DOMAIN patch |->
        IF k \in DOMAIN patch
        THEN (IF k \in DOMAIN current THEN patch[k] @@ current[k] ELSE patch[k])
        ELSE current[k]]

\* The containers of the patch merge into the containers of the workload by
\* name; a name the workload does not have is added.
RECURSIVE mergeContainers(_, _)
mergeContainers(containers, patches) ==
    IF patches = <<>> THEN containers
    ELSE LET p == Head(patches)
             hit == {i \in DOMAIN containers : containers[i].Name = p.name}
         IN  mergeContainers(IF hit = {}
                             THEN Append(containers, [Name |-> p.name, Image |-> "", Env |-> <<>>, Args |-> <<>>, Resources |-> p.resources])
                             ELSE [i \in DOMAIN containers |-> IF i \in hit THEN [containers[i] EXCEPT !.Resources = mergeResources(@, p.resources)] ELSE containers[i]],
                             Tail(patches))

\* The workload after the platform has applied the body of a patch.
strategicMerge(workload, body) ==
    LET withReplicas == IF "replicas" \in DOMAIN body.spec THEN [workload EXCEPT !.Replicas = Some(body.spec["replicas"])] ELSE workload
    IN  IF "template" \in DOMAIN body.spec
        THEN [withReplicas EXCEPT !.Template.Containers = mergeContainers(@, body.spec["template"].spec.containers)]
        ELSE withReplicas

\* The workloads a decision is applied to: the web container with or
\* without resources of its own, or the sidecar alone.
WorkloadContainers ==
    { <<[Name |-> "web", Image |-> "web:1", Env |-> <<>>, Args |-> <<>>, Resources |-> EmptyMap]>>,
      <<[Name |-> "web", Image |-> "web:1", Env |-> <<>>, Args |-> <<>>, Resources |-> ("limits" :> ("cpu" :> cpuQuantity(250) @@ "memory" :> memoryQuantity(64)))],
        [Name |-> "proxy", Image |-> "proxy:2", Env |-> <<[Name |-> "TOKEN", Value |-> "t0k3n"]>>, Args |-> <<"--key=k">>, Resources |-> EmptyMap]>>,
      <<[Name |-> "proxy", Image |-> "proxy:2", Env |-> <<>>, Args |-> <<>>, Resources |-> ("requests" :> ("cpu" :> cpuQuantity(100)))]>> }
ApplyWorkloads ==
    {[ Replicas |-> r, UpdateStrategy |-> [Type |-> t, RollingUpdate |-> ru],
       Template |-> [Containers |-> cs, InitContainers |-> <<>>] ] :
        r \in {None, Some(1), Some(3)}, t \in {"RollingUpdate", "OnDelete"},
        ru \in {None, Some([Partition |-> Some(2)])}, cs \in WorkloadContainers}
\* The decisions applied: none, one or two containers.
ApplyDecisions ==
    {[Replicas |-> r, Containers |-> cs] :
        r \in {None, Some(0), Some(1), Some(3)},
        cs \in {<<>>} \cup {<<c>> : c \in SampleDecisionContainers}
                \cup {<<[Name |-> "web", Requests |-> [CPU |-> Some(500), Memory |-> None], Limits |-> [CPU |-> Some(500), Memory |-> Some(128)]],
                         [Name |-> "proxy", Requests |-> [CPU |-> None, Memory |-> Some(128)], Limits |-> [CPU |-> None, Memory |-> None]]>>}}
ApplyPlatforms == {[statefulSet |-> w, getErr |-> g, patchErr |-> e] : w \in ApplyWorkloads, g \in {ErrNil, "not found"}, e \in {ErrNil, "patch rejected"}}

\* A decision and the platform it will be applied to; the platform answers
\* every application the same way (no change from outside).
InitApply ==
    /\ pending \in {[op |-> "Apply", kind |-> k, name |-> "db", namespace |-> "prod", totalResources |-> tr, platform |-> pf, applied |-> 0] :
                        k \in {"Deployment", "StatefulSet"}, tr \in ApplyDecisions, pf \in ApplyPlatforms}
    /\ returned = [op |-> "none"]
    /\ last = [op |-> "init"]
    /\ RateIdle
    /\ BackoffIdle
    /\ ScrapeIdle

\* The decision is applied once more: SetResources runs against the
\* platform as it is now, and a patch the platform accepts is merged into
\* the workload.
ApplyDecision ==
    /\ pending.op = "Apply"
    /\ pending.applied < MaxApplications
    /\ LET r == SetResources(pending.kind, pending.name, pending.namespace, pending.totalResources, pending.platform)
           patches == {i \in 1 .. Len(r.requests) : r.requests[i].verb = "patch"}
           workload == IF patches # {} /\ pending.platform.patchErr = ErrNil
                       THEN strategicMerge(pending.platform.statefulSet, r.requests[CHOOSE i \in patches : TRUE].body)
                       ELSE pending.platform.statefulSet
       IN  /\ returned' = [op |-> "SetResources"] @@ r
           /\ pending' = [pending EXCEPT !.platform.statefulSet = workload, !.applied = @ + 1]
           /\ last' = [op |-> "apply", initial |-> (IF pending.applied = 0 THEN pending.platform.statefulSet ELSE last.initial),
                       once |-> (IF pending.applied = 0 THEN workload ELSE last.once), patched |-> (patches # {} /\ pending.platform.patchErr = ErrNil)]
    /\ UNCHANGED <<rateVars, backoffVars, scrapeVars>>

NextApply == ApplyDecision

SpecApply == InitApply /\ [][NextApply]_vars
\* ----------------------------------------------------- SetResources: claims
SetDone == returned.op = "SetResources"

\* A patch request was sent by the call.
PatchIssued == \E i \in 1 .. Len(returned.requests) : returned.requests[i].verb = "patch"

\* The decision was for a StatefulSet whose current spec has replicas > 1.
OnScaledStatefulSet ==
    /\ SetDone
    /\ toLower(last.kind) = "statefulset"
    /\ last.platform.statefulSet.Replicas # None
    /\ Val(last.platform.statefulSet.Replicas) > 1

\* UpdateStrategy is RollingUpdate and its partition is unset or 0.
RollsEveryPod ==
    LET us == last.platform.statefulSet.UpdateStrategy
    IN  /\ us.Type = "RollingUpdate"
        /\ \/ us.RollingUpdate = None
           \/ Val(us.RollingUpdate).Partition = None
           \/ Val(us.RollingUpdate).Partition = Some(0)

\* C7 (StatefulSet guard), as claimed: on a StatefulSet with replicas > 1 a
\* patch is sent only if the strategy is RollingUpdate with partition unset
\* or 0; otherwise skipped=true is returned with a reason and no patch is
\* sent.
C7_GuardAlwaysSkips ==
    OnScaledStatefulSet =>
        /\ PatchIssued => RollsEveryPod
        /\ ~RollsEveryPod => (returned.skipped /\ returned.err # ErrNil /\ ~PatchIssued)

\* The decision passed the first validation and the StatefulSet was fetched.
GuardReached ==
    /\ ~(Len(last.totalResources.Containers) = 0 /\ last.totalResources.Replicas = None)
    /\ last.platform.getErr = ErrNil

\* C7, amended: on a StatefulSet with replicas > 1 a patch is sent only if
\* the strategy is RollingUpdate with partition unset or 0; otherwise no
\* patch is sent, and skipped=true is returned with a reason provided the
\* decision is not rejected as empty (replicas unset and no containers) and
\* the fetch of the StatefulSet succeeds (both return skipped=false with an
\* error before the guard is reached).
C7_GuardSkips ==
    OnScaledStatefulSet =>
        /\ PatchIssued => RollsEveryPod
        /\ ~RollsEveryPod => ~PatchIssued
        /\ (~RollsEveryPod /\ GuardReached) => (returned.skipped /\ returned.err # ErrNil)
        /\ (~RollsEveryPod /\ ~GuardReached) => (~returned.skipped /\ returned.err # ErrNil)

\* C7 witness: replicas=3 asked of a StatefulSet with replicas=3 and a
\* rolling update partitioned at 2: skipped, nothing but the fetch sent.
C7_Witness ==
    /\ OnScaledStatefulSet
    /\ last.totalResources.Replicas = Some(3)
    /\ last.platform.statefulSet.UpdateStrategy.Type = "RollingUpdate"
    /\ last.platform.statefulSet.UpdateStrategy.RollingUpdate = Some([Partition |-> Some(2)])
    /\ returned.skipped
    /\ Len(returned.requests) = 1

\* The patch requests the call sent.
PatchRequests == {i \in 1 .. Len(returned.requests) : returned.requests[i].verb = "patch"}

\* C14 (empty decision): SetResources with replicas unset and no
\* containers returns an error with skipped=false and sends nothing:
\* neither the fetch of the StatefulSet nor a patch.
C14_EmptyDecisionRejected ==
    (SetDone /\ last.totalResources.Replicas = None /\ Len(last.totalResources.Containers) = 0)
        => /\ ~returned.skipped
           /\ returned.err # ErrNil
           /\ returned.requests = <<>>

\* C14 witness: an empty decision for a StatefulSet with three replicas
\* that is updated on delete: rejected before anything is fetched.
C14_Witness ==
    /\ SetDone
    /\ last.totalResources = [Replicas |-> None, Containers |-> <<>>]
    /\ toLower(last.kind) = "statefulset"
    /\ last.platform.statefulSet.Replicas = Some(3)
    /\ last.platform.statefulSet.UpdateStrategy.Type = "OnDelete"
    /\ returned.err = "invalid resources passed, nothing to change"
    /\ ~returned.skipped
    /\ returned.requests = <<>>

\* C15 (replicas in the patch): the body of every patch sent has
\* spec.replicas if and only if the decision's replicas are set and
\* greater than zero, and then it is the decision's value.
C15_ReplicasInPatch ==
    SetDone =>
        \A i \in PatchRequests :
            LET spec == returned.requests[i].body.spec
                replicas == last.totalResources.Replicas
            IN  /\ ("replicas" \in DOMAIN spec) <=> (replicas # None /\ Val(replicas) > 0)
                /\ ("replicas" \in DOMAIN spec) => spec["replicas"] = Val(replicas)

\* C15 witness: a decision with replicas=0 and a container was patched,
\* and the body names the container but no replicas.
C15_Witness ==
    /\ SetDone
    /\ last.totalResources.Replicas = Some(0)
    /\ PatchRequests # {}
    /\ \A i \in PatchRequests : DOMAIN returned.requests[i].body.spec = {"template"}

\* C35 (a patch changes something): the body of every patch request that
\* SetResources sends has spec.replicas, or at least one container entry
\* that carries a request or a limit.
C35_PatchChangesSomething ==
    SetDone =>
        \A i \in PatchRequests :
            LET spec == returned.requests[i].body.spec
            IN  \/ "replicas" \in DOMAIN spec
                \/ /\ "template" \in DOMAIN spec
                   /\ \E c \in DOMAIN spec["template"].spec.containers :
                        spec["template"].spec.containers[c].resources # EmptyMap

\* C35, as far as the code goes: a patch request without spec.replicas and
\* without a container entry comes from a decision with no containers and
\* replicas set to a value that is not positive; every container entry of
\* a patch carries a request or a limit.
C35_EmptyPatchOnlyForZeroReplicas ==
    SetDone =>
        \A i \in PatchRequests :
            LET spec == returned.requests[i].body.spec
            IN  /\ "template" \in DOMAIN spec =>
                        /\ Len(spec["template"].spec.containers) > 0
                        /\ \A c \in DOMAIN spec["template"].spec.containers :
                                spec["template"].spec.containers[c].resources # EmptyMap
                /\ spec = EmptyMap <=>
                        /\ Len(last.totalResources.Containers) = 0
                        /\ last.totalResources.Replicas # None
                        /\ Val(last.totalResources.Replicas) <= 0

\* C35 failing input reached: a Deployment decision with no containers and
\* replicas=0 was patched with an empty spec.
C35_EmptyPatchSent ==
    /\ SetDone
    /\ last.totalResources = [Replicas |-> Some(0), Containers |-> <<>>]
    /\ last.kind = "Deployment"
    /\ PatchRequests # {}
    /\ \A i \in PatchRequests : returned.requests[i].body.spec = EmptyMap

\* C16 (idempotence): with the platform answering as before, the workload
\* after the same decision has been applied two or more times - replicas
\* and the requests and limits of every container, merged by container
\* name - is the workload after it was applied once.
C16_Idempotent ==
    (pending.op = "Apply" /\ pending.applied >= 2) => pending.platform.statefulSet = last.once

\* C16 witness: a decision applied three times whose first application
\* changed the replicas and merged resources into the web container, next
\* to a container the decision does not name.
C16_Witness ==
    /\ pending.op = "Apply"
    /\ pending.applied = MaxApplications
    /\ last.once # last.initial
    /\ last.once.Replicas # last.initial.Replicas
    /\ Len(last.once.Template.Containers) = 2
    /\ last.once.Template.Containers[1].Name = "web"
    /\ last.once.Template.Containers[1].Resources # last.initial.Template.Containers[1].Resources
    /\ DOMAIN last.once.Template.Containers[1].Resources["limits"] = {"cpu", "memory"}
    /\ pending.platform.statefulSet = last.once
\* ------------------------------------------------------------ the supervisor
\* The start-up steps of main in program order.
StartupSteps == <<"secret", "gateway", "kube", "scanner", "executor", "listeners", "events", "metrics", "scalar">>

\* How many Restart packets the session dispatches to the listener.
MaxPackets == 2

\* The statuses a Restart packet may carry.
RestartStatuses == {0, 1, 3}

\* Whether main runs a step: events, metrics and scalar depend on flags.
stepEnabled(step, env) ==
    CASE step = "events" -> env.eventsEnabled
      [] step = "metrics" -> env.metricsEnabled
      [] step = "scalar" -> env.scalarEnabled
      [] OTHER -> TRUE

\* Whether a step hands main an error: the secret does not decode,
\* InitClient, InitKubernetes or InitMetrics return one.
stepFails(step, env) ==
    CASE step = "secret" -> ~env.secretOK
      [] step = "gateway" -> ~env.gatewayOK
      [] step = "kube" -> ~env.kubeOK
      [] step = "metrics" -> ~env.metricsOK
      [] OTHER -> FALSE

\* The logger main reports a failure of a step on: the gateway client for
\* the metrics sources, the local logger otherwise.
fatalLogger(step) == IF step = "metrics" THEN "gwClient" ELSE "stderr"

\* The mutant of a fatal failure: Fatalf alone (the logger's exiter being
\* disabled), main goes on.
fatalExit_LogOnly(proc, step) ==
    [proc EXCEPT !.pc = @ + 1, !.steps = Append(@, step), !.fatal = Append(@, step),
                 !.frames = IF fatalLogger(step) = "gwClient" THEN Append(@, [kind |-> "Log"]) ELSE @]

\* Fatalf, which only logs (the exiter is disabled; the gateway client
\* mirrors its log to the session), followed by os.Exit(1): the process
\* ends there, no deferred call of main runs.
fatalExit(proc, step) ==
    [proc EXCEPT !.pc = 0, !.steps = Append(@, step), !.fatal = Append(@, step), !.exit = Some(1),
                 !.frames = IF fatalLogger(step) = "gwClient" THEN Append(@, [kind |-> "Log"]) ELSE @]

\* One start-up step of main; after the last one main returns and its
\* deferred WaitExit waits for the session to end.
mainStep(proc, env) ==
    LET step == StartupSteps[proc.pc]
    IN  IF ~stepEnabled(step, env) THEN [proc EXCEPT !.pc = @ + 1]
        ELSE IF stepFails(step, env) THEN fatalExit(proc, step)
        ELSE [proc EXCEPT !.pc = @ + 1, !.steps = Append(@, step)]

\* gwClient.Done(status): the BYE frame carrying the status.
Done(proc, status) == [proc EXCEPT !.done = Append(@, status), !.frames = Append(@, [kind |-> "Bye", status |-> status])]

\* The mutant of the Restart listener: Done is called whether or not the
\* packet decodes.
restartListener_AlwaysDone(proc, packet) ==
    [proc |-> Done(proc, IF packet.decodes THEN packet.status ELSE 0), out |-> None, err |-> IF packet.decodes THEN ErrNil ELSE "unable to decode packet"]

\* The listener main registers for PacketKindRestart.
restartListener(proc, packet) ==
    IF ~packet.decodes THEN [proc |-> proc, out |-> None, err |-> "unable to decode packet"]
    ELSE [proc |-> Done(proc, packet.status), out |-> None, err |-> ErrNil]

\* The process at the start of main, and what its start-up will meet.
InitMain ==
    /\ pending \in [op : {"main"}, secretOK : BOOLEAN, gatewayOK : BOOLEAN, kubeOK : BOOLEAN, metricsOK : BOOLEAN,
                    eventsEnabled : BOOLEAN, metricsEnabled : BOOLEAN, scalarEnabled : BOOLEAN]
    /\ returned = [op |-> "main", pc |-> 1, steps |-> <<>>, fatal |-> <<>>, exit |-> None, frames |-> <<>>, done |-> <<>>, packets |-> 0]
    /\ last = [op |-> "init"]
    /\ RateIdle
    /\ BackoffIdle
    /\ ScrapeIdle

\* main runs its next start-up step.
MainStartup ==
    /\ returned.op = "main"
    /\ returned.exit = None
    /\ returned.pc \in DOMAIN StartupSteps
    /\ returned' = mainStep(returned, pending)
    /\ last' = [op |-> "startup", step |-> StartupSteps[returned.pc]]
    /\ UNCHANGED <<pending, rateVars, backoffVars, scrapeVars>>

\* The Restart packets the gateway may send: decodable or not, with a
\* status.
RestartPackets == [decodes : BOOLEAN, status : RestartStatuses]

\* The session dispatches a Restart packet to the registered listener.
RestartPacket(packet) ==
    /\ returned.op = "main"
    /\ returned.exit = None
    /\ \E i \in DOMAIN returned.steps : returned.steps[i] = "listeners"
    /\ returned.done = <<>>
    /\ returned.packets < MaxPackets
    /\ LET r == restartListener(returned, packet)
       IN  /\ returned' = [r.proc EXCEPT !.packets = @ + 1]
           /\ last' = [op |-> "restart", packet |-> packet, err |-> r.err, doneBefore |-> returned.done]
    /\ UNCHANGED <<pending, rateVars, backoffVars, scrapeVars>>

\* main has returned and Done was called: the deferred WaitExit ends the
\* process with the status Done was given.
MainWaitExit ==
    /\ returned.op = "main"
    /\ returned.exit = None
    /\ returned.pc = Len(StartupSteps) + 1
    /\ returned.done # <<>>
    /\ returned' = [returned EXCEPT !.exit = Some(returned.done[1])]
    /\ last' = [op |-> "exit"]
    /\ UNCHANGED <<pending, rateVars, backoffVars, scrapeVars>>

NextMain ==
    \/ MainStartup
    \/ \E packet \in RestartPackets : RestartPacket(packet)
    \/ MainWaitExit

SpecMain == InitMain /\ [][NextMain]_vars

\* ---------------------------------------------------- the supervisor: claims
\* main met a fatal error at this step.
FatalAt(step) == returned.op = "main" /\ returned.fatal = <<step>>

\* The session was established: InitClient returned without error.
SessionEstablished == \E i \in DOMAIN returned.steps : returned.steps[i] = "gateway" /\ returned.fatal # <<"gateway">>

\* A BYE frame was transmitted on the session.
ByeSent == \E i \in DOMAIN returned.frames : returned.frames[i].kind = "Bye"

\* C22 (final BYE), as claimed: when the process has ended on a fatal
\* start-up error met after the session was established (platform client,
\* metrics sources), a BYE frame was transmitted on the session.
C22_ByeBeforeFatalExit ==
    (returned.op = "main" /\ returned.exit # None /\ (FatalAt("kube") \/ FatalAt("metrics")) /\ SessionEstablished) => ByeSent

\* The position of a step in the start-up sequence.
StepIndex(step) == CHOOSE i \in DOMAIN StartupSteps : StartupSteps[i] = step

\* C23 (fatal initialisation error): a start-up step that fails - secret,
\* gateway connection, platform client, metrics sources - ends the
\* process with status 1, and no step that follows it in the start-up
\* sequence is executed, then or later.
C23_FatalStopsStartup ==
    (returned.op = "main" /\ returned.fatal # <<>>) =>
        /\ Len(returned.fatal) = 1
        /\ returned.exit = Some(1)
        /\ \A i \in DOMAIN returned.steps : StepIndex(returned.steps[i]) <= StepIndex(returned.fatal[1])
        /\ returned.steps[Len(returned.steps)] = returned.fatal[1]

\* C23 witness: the platform client could not be constructed: the process
\* has ended with status 1 after secret, gateway and kube, with events,
\* metrics and scalar enabled and never started.
C23_Witness ==
    /\ FatalAt("kube")
    /\ pending.eventsEnabled /\ pending.metricsEnabled /\ pending.scalarEnabled
    /\ returned.steps = <<"secret", "gateway", "kube">>
    /\ returned.exit = Some(1)

\* C24 (restart listener): a Restart packet that decodes makes the listener
\* call Done exactly once, with the status of the packet, and return no
\* error; one that does not decode makes it return the decode error
\* without calling Done.
C24_DoneOncePerRestart ==
    last.op = "restart" =>
        /\ last.packet.decodes => (returned.done = Append(last.doneBefore, last.packet.status) /\ last.err = ErrNil)
        /\ ~last.packet.decodes => (returned.done = last.doneBefore /\ last.err # ErrNil)

\* C24 witness: a packet that did not decode was followed by one carrying
\* status 3: Done was called once, with 3, and the BYE carries it.
C24_Witness ==
    /\ last.op = "restart"
    /\ returned.packets = 2
    /\ last.packet = [decodes |-> TRUE, status |-> 3]
    /\ returned.done = <<3>>
    /\ \E i \in DOMAIN returned.frames : returned.frames[i] = [kind |-> "Bye", status |-> 3]

\* -------------------------------------------- GetMetrics and the scanner
\* How many snapshots the scanner installs while one cycle runs.
MaxInstalls == 2

\* The reads GetMetrics makes of the scanner itself, in program order;
\* the node tasks are run (pr.Do()) after the last of them.
CycleReads == <<"GetNodes", "NodesLastScanTime", "GetApplications", "AppsLastScanTime">>

\* The reads a node task makes of the scanner, in program order.
TaskReads == <<"FindService", "FindContainer", "FindContainerByPodUIDContainerName">>

\* How many node tasks the cycle starts.
SnapshotTasks == 2

\* A cycle about to start, the scanner holding its first snapshot; of each
\* read the snapshot it observed is kept, 0 before the read is made.
InitSnapshot ==
    /\ scrape = [pc |-> 1, snapshot |-> 1, seen |-> [r \in DOMAIN CycleReads |-> 0]]
    /\ tasks = [i \in 1..SnapshotTasks |-> [pc |-> 1, seen |-> [r \in DOMAIN TaskReads |-> 0]]]
    /\ result = [op |-> "none"]
    /\ last = [op |-> "init"]
    /\ RateIdle
    /\ BackoffIdle
    /\ KubeIdle

\* Whether the node tasks have all returned (pr.Do()).
SnapshotTasksDone == \A i \in DOMAIN tasks : tasks[i].pc = Len(TaskReads) + 1

\* The scanner's loop installs a new snapshot: the one any later call of
\* the scanner answers from.
ScannerInstall ==
    /\ scrape.snapshot <= MaxInstalls
    /\ ~SnapshotTasksDone
    /\ scrape' = [scrape EXCEPT !.snapshot = @ + 1]
    /\ last' = [op |-> "install"]
    /\ UNCHANGED <<rateVars, backoffVars, kubeVars, tasks, result>>

\* GetMetrics calls the scanner: the call is answered from the snapshot
\* installed at that moment.
CycleRead ==
    /\ scrape.pc \in DOMAIN CycleReads
    /\ scrape' = [scrape EXCEPT !.seen[scrape.pc] = scrape.snapshot, !.pc = @ + 1]
    /\ last' = [op |-> "read", read |-> CycleReads[scrape.pc]]
    /\ UNCHANGED <<rateVars, backoffVars, kubeVars, tasks, result>>

\* A node task, started by pr.Do(), calls the scanner.
TaskRead(i) ==
    /\ scrape.pc = Len(CycleReads) + 1
    /\ tasks[i].pc \in DOMAIN TaskReads
    /\ tasks' = [tasks EXCEPT ![i].seen[tasks[i].pc] = scrape.snapshot, ![i].pc = @ + 1]
    /\ last' = [op |-> "read", read |-> TaskReads[tasks[i].pc]]
    /\ UNCHANGED <<rateVars, backoffVars, kubeVars, scrape, result>>

NextSnapshot ==
    \/ ScannerInstall
    \/ CycleRead
    \/ \E i \in DOMAIN tasks : TaskRead(i)

SpecSnapshot == InitSnapshot /\ [][NextSnapshot]_vars

\* The snapshots the reads of the cycle made so far have observed.
SnapshotsObserved ==
    ({scrape.seen[r] : r \in DOMAIN scrape.seen} \cup UNION {{tasks[i].seen[r] : r \in DOMAIN tasks[i].seen} : i \in DOMAIN tasks}) \ {0}

\* C26 (one snapshot per cycle), as claimed: the topology reads of one
\* GetMetrics call - node list, nodes scan time, the lookups of the node
\* tasks, application list, apps scan time - all observe one and the same
\* snapshot, also when the scanner installs a new one meanwhile.
C26_OneSnapshotPerCycle == scrape.pc \in 1..(Len(CycleReads) + 1) => Cardinality(SnapshotsObserved) <= 1

\* --------------------------------------------------------------- GetMetrics
\* The topology snapshot the scanner serves during the cycle: two nodes of
\* different instance groups, one application with two services of one
\* container each, and the pod index (a replica of that container on each
\* node: pod p1 on n1, pod p2 on n2).
Nodes ==
    << [ Name |-> "n1", ID |-> "node-0001", InstanceType |-> "m5", InstanceSize |-> "large",
         Capacity |-> [CPU |-> 4, Memory |-> 8], Allocatable |-> [CPU |-> 3, Memory |-> 7] ],
       [ Name |-> "n2", ID |-> "node-0002", InstanceType |-> "", InstanceSize |-> "",
         Capacity |-> [CPU |-> 2, Memory |-> 4], Allocatable |-> [CPU |-> 1, Memory |-> 3] ] >>

WebContainer ==
    [ ID |-> "ctr-0001", Name |-> "web",
      Resources |-> [ Requests |-> [cpu |-> 250, memory |-> 64],
                      Limits |-> [cpu |-> 500, memory |-> 128] ] ]

\* A container that sets requests only and runs on no node of the list.
JobContainer ==
    [ ID |-> "ctr-0002", Name |-> "job",
      Resources |-> [ Requests |-> [cpu |-> 100, memory |-> 32],
                      Limits |-> [cpu |-> 0, memory |-> 0] ] ]

Applications ==
    << [ ID |-> "app-0001",
         Services |-> << [ID |-> "svc-0001", Containers |-> <<WebContainer>>],
                         [ID |-> "svc-0002", Containers |-> <<JobContainer>>] >> ] >>

PodIndex ==
    { [ Namespace |-> "ns", Name |-> "p1", UID |-> "uid-1", applicationID |-> "app-0001",
        serviceID |-> "svc-0001", containers |-> <<WebContainer>> ],
      [ Namespace |-> "ns", Name |-> "p2", UID |-> "uid-2", applicationID |-> "app-0001",
        serviceID |-> "svc-0001", containers |-> <<WebContainer>> ] }

\* scanner.NodesLastScanTime() and scanner.AppsLastScanTime().
ScanTimes == [nodes |-> 1, apps |-> 1]

\* scanner.FindService.
FindService(namespace, podName) ==
    LET hits == {p \in PodIndex : p.Namespace = namespace /\ p.Name = podName}
    IN  IF hits = {} THEN [ok |-> FALSE, applicationID |-> Nil, serviceID |-> Nil]
        ELSE LET p == CHOOSE p \in hits : TRUE
             IN  [ok |-> TRUE, applicationID |-> p.applicationID, serviceID |-> p.serviceID]

\* The containers of the pod index: <<pod, position>>.
IndexedContainers == UNION {{<<p, i>> : i \in DOMAIN p.containers} : p \in PodIndex}

\* scanner.FindContainer.
FindContainer(namespace, podName, containerName) ==
    LET hits == {h \in IndexedContainers : h[1].Namespace = namespace /\ h[1].Name = podName /\ h[1].containers[h[2]].Name = containerName}
    IN  IF hits = {} THEN [ok |-> FALSE, applicationID |-> Nil, serviceID |-> Nil, container |-> [ID |-> Nil]]
        ELSE LET h == CHOOSE h \in hits : TRUE
             IN  [ok |-> TRUE, applicationID |-> h[1].applicationID, serviceID |-> h[1].serviceID, container |-> h[1].containers[h[2]]]

\* scanner.FindContainerByPodUIDContainerName.
FindContainerByPodUIDContainerName(podUID, containerName) ==
    LET hits == {h \in IndexedContainers : h[1].UID = podUID /\ h[1].containers[h[2]].Name = containerName}
    IN  IF hits = {} THEN [ok |-> FALSE, containerID |-> Nil]
        ELSE LET h == CHOOSE h \in hits : TRUE
             IN  [ok |-> TRUE, containerID |-> h[1].containers[h[2]].ID]

\* The enumerations of a set: the orders a Go map of these keys may be
\* ranged over.
Orders(S) == {s \in [1 .. Cardinality(S) -> S] : \A x \in S : \E i \in DOMAIN s : s[i] = x}

\* One row of a measurement table of GetMetrics.
Measurement(name, time, value) == [Name |-> name, Time |-> time, Value |-> value, Multiplier |-> 0]
RateMeasurement(name, time, value, multiplier) == [Name |-> name, Time |-> time, Value |-> value, Multiplier |-> multiplier]

\* addMetricValue for every row of a measurement table, in order.
RECURSIVE addMetricValues(_, _, _, _, _, _, _, _, _)
addMetricValues(batch, tick, measurementType, nodeID, applicationID, serviceID, containerID, podName, measurements) ==
    IF measurements = <<>> THEN batch
    ELSE addMetricValues(addMetricValue(batch, tick, measurementType, Head(measurements).Name, nodeID, applicationID, serviceID, containerID, podName, Head(measurements).Time, Head(measurements).Value), tick, measurementType, nodeID, applicationID, serviceID, containerID, podName, Tail(measurements))

\* addMetricValueRate for every row of a measurement table, in order.
RECURSIVE addMetricValueRates(_, _, _, _, _, _, _, _, _, _, _)
addMetricValueRates(st, tick, measurementType, parentKey, entityKey, nodeID, applicationID, serviceID, containerID, pod, measurements) ==
    IF measurements = <<>> THEN st
    ELSE addMetricValueRates(addMetricValueRate(st, tick, measurementType, parentKey, entityKey, Head(measurements).Name, nodeID, applicationID, serviceID, containerID, pod, Head(measurements).Time, Head(measurements).Value, Head(measurements).Multiplier), tick, measurementType, parentKey, entityKey, nodeID, applicationID, serviceID, containerID, pod, Tail(measurements))

\* The instance group of a node.
instanceGroup(node) ==
    (IF node.InstanceType # "" THEN node.InstanceType ELSE "") \o (IF node.InstanceSize # "" THEN "." \o node.InstanceSize ELSE "")

\* The instanceGroups map: group -> number of nodes.
instanceGroups(nodes) ==
    [g \in {instanceGroup(nodes[i]) : i \in DOMAIN nodes} |-> Cardinality({i \in DOMAIN nodes : instanceGroup(nodes[i]) = g})]

\* The tagged nodes/count records, the groups ranged over in groupOrder.
RECURSIVE groupCounts(_, _, _)
groupCounts(batch, groups, groupOrder) ==
    IF groupOrder = <<>> THEN batch
    ELSE groupCounts(addMetricValueWithTags(batch, TypeCluster, "nodes/count", Nil, Nil, Nil, Nil, "", ScanTimes.nodes, groups[Head(groupOrder)], [instance_group |-> Head(groupOrder)]), groups, Tail(groupOrder))

\* The capacity records of the nodes of the snapshot.
RECURSIVE nodeCapacities(_, _, _)
nodeCapacities(batch, tick, nodes) ==
    IF nodes = <<>> THEN batch
    ELSE nodeCapacities(addMetricValues(batch, tick, TypeNode, Head(nodes).ID, Nil, Nil, Nil, "",
                            << Measurement("cpu/node_capacity", ScanTimes.nodes, Head(nodes).Capacity.CPU),
                               Measurement("cpu/node_allocatable", ScanTimes.nodes, Head(nodes).Allocatable.CPU),
                               Measurement("memory/node_capacity", ScanTimes.nodes, Head(nodes).Capacity.Memory),
                               Measurement("memory/node_allocatable", ScanTimes.nodes, Head(nodes).Allocatable.Memory) >>),
                        tick, Tail(nodes))

\* The emissions from the node list of the snapshot: nodes/count, the same
\* per instance group, and the capacities of every node.
snapshotMetrics(batch, tick, nodes, groupOrder) ==
    nodeCapacities(groupCounts(addMetricValue(batch, tick, TypeCluster, "nodes/count", Nil, Nil, Nil, Nil, "", ScanTimes.nodes, Len(nodes)), instanceGroups(nodes), groupOrder), tick, nodes)

\* The containers of the snapshot with their application and service.
RECURSIVE flatten(_)
flatten(seqs) == IF seqs = <<>> THEN <<>> ELSE Head(seqs) \o flatten(Tail(seqs))
serviceContainers(app, service) == [i \in DOMAIN service.Containers |-> [app |-> app, service |-> service, container |-> service.Containers[i]]]
appContainers(app) == flatten([i \in DOMAIN app.Services |-> serviceContainers(app, app.Services[i])])
allContainers(apps) == flatten([i \in DOMAIN apps |-> appContainers(apps[i])])

\* The mutant of the resource-plan emission: the records are of type Pod.
RECURSIVE resourcePlanMetrics_AsPod(_, _, _)
resourcePlanMetrics_AsPod(batch, tick, entries) ==
    IF entries = <<>> THEN batch
    ELSE resourcePlanMetrics_AsPod(addMetricValues(batch, tick, TypePod, Nil, Head(entries).app.ID, Head(entries).service.ID, Head(entries).container.ID, "",
                                 << Measurement("cpu/request", ScanTimes.apps, Head(entries).container.Resources.Requests.cpu),
                                    Measurement("cpu/limit", ScanTimes.apps, Head(entries).container.Resources.Limits.cpu),
                                    Measurement("memory/request", ScanTimes.apps, Head(entries).container.Resources.Requests.memory),
                                    Measurement("memory/limit", ScanTimes.apps, Head(entries).container.Resources.Limits.memory) >>),
                             tick, Tail(entries))

\* The mutant of the resource-plan emission: the limits are left out.
RECURSIVE resourcePlanMetrics_RequestsOnly(_, _, _)
resourcePlanMetrics_RequestsOnly(batch, tick, entries) ==
    IF entries = <<>> THEN batch
    ELSE resourcePlanMetrics_RequestsOnly(addMetricValues(batch, tick, TypePodContainer, Nil, Head(entries).app.ID, Head(entries).service.ID, Head(entries).container.ID, "",
                                 << Measurement("cpu/request", ScanTimes.apps, Head(entries).container.Resources.Requests.cpu),
                                    Measurement("memory/request", ScanTimes.apps, Head(entries).container.Resources.Requests.memory) >>),
                             tick, Tail(entries))

\* The resource-plan records of the containers of the snapshot.
RECURSIVE resourcePlanMetrics(_, _, _)
resourcePlanMetrics(batch, tick, entries) ==
    IF entries = <<>> THEN batch
    ELSE resourcePlanMetrics(addMetricValues(batch, tick, TypePodContainer, Nil, Head(entries).app.ID, Head(entries).service.ID, Head(entries).container.ID, "",
                                 << Measurement("cpu/request", ScanTimes.apps, Head(entries).container.Resources.Requests.cpu),
                                    Measurement("cpu/limit", ScanTimes.apps, Head(entries).container.Resources.Limits.cpu),
                                    Measurement("memory/request", ScanTimes.apps, Head(entries).container.Resources.Requests.memory),
                                    Measurement("memory/limit", ScanTimes.apps, Head(entries).container.Resources.Limits.memory) >>),
                             tick, Tail(entries))

\* The node-scope records of a summary: absolutes, then rates.
nodeMetrics(st, tick, node, summary) ==
    LET absolutes == addMetricValues(st.metrics, tick, TypeNode, node.ID, Nil, Nil, Nil, "",
                        << Measurement("cpu/usage", summary.Node.CPU.Time, summary.Node.CPU.UsageCoreNanoSeconds),
                           Measurement("memory/rss", summary.Node.Memory.Time, summary.Node.Memory.RSSBytes),
                           Measurement("filesystem/usage", summary.Node.FS.Time, summary.Node.FS.UsedBytes),
                           Measurement("filesystem/node_capacity", summary.Node.FS.Time, summary.Node.FS.CapacityBytes),
                           Measurement("filesystem/node_allocatable", summary.Node.FS.Time, summary.Node.FS.CapacityBytes),
                           Measurement("network/tx", summary.Node.Network.Time, summary.Node.Network.TxBytes),
                           Measurement("network/rx", summary.Node.Network.Time, summary.Node.Network.RxBytes),
                           Measurement("network/tx_errors", summary.Node.Network.Time, summary.Node.Network.TxErrors),
                           Measurement("network/rx_errors", summary.Node.Network.Time, summary.Node.Network.RxErrors) >>)
    IN  addMetricValueRates([previous |-> st.previous, metrics |-> absolutes], tick, TypeNode, "", node.ID, node.ID, Nil, Nil, Nil, "",
            << RateMeasurement("cpu/usage_rate", summary.Node.CPU.Time, summary.Node.CPU.UsageCoreNanoSeconds, MilliMultiplier),
               RateMeasurement("network/tx_rate", summary.Node.Network.Time, summary.Node.Network.TxBytes, NanoMultiplier),
               RateMeasurement("network/rx_rate", summary.Node.Network.Time, summary.Node.Network.RxBytes, NanoMultiplier),
               RateMeasurement("network/tx_errors_rate", summary.Node.Network.Time, summary.Node.Network.TxErrors, NanoMultiplier),
               RateMeasurement("network/rx_errors_rate", summary.Node.Network.Time, summary.Node.Network.RxErrors, NanoMultiplier) >>)

\* The pod-scope network records of a resolved pod: absolutes, then rates.
podMetrics(st, tick, node, pod, found) ==
    LET absolutes == addMetricValues(st.metrics, tick, TypePod, node.ID, found.applicationID, found.serviceID, Nil, pod.PodRef.Name,
                        << Measurement("network/tx", pod.Network.Time, pod.Network.TxBytes),
                           Measurement("network/rx", pod.Network.Time, pod.Network.TxBytes),
                           Measurement("network/tx_errors", pod.Network.Time, pod.Network.TxErrors),
                           Measurement("network/rx_errors", pod.Network.Time, pod.Network.RxErrors) >>)
    IN  addMetricValueRates([previous |-> st.previous, metrics |-> absolutes], tick, TypePod, pod.PodRef.Namespace, pod.PodRef.Name, node.ID, found.applicationID, found.serviceID, Nil, pod.PodRef.Name,
            << RateMeasurement("network/tx_rate", pod.Network.Time, pod.Network.TxBytes, NanoMultiplier),
               RateMeasurement("network/rx_rate", pod.Network.Time, pod.Network.TxBytes, NanoMultiplier),
               RateMeasurement("network/tx_errors_rate", pod.Network.Time, pod.Network.TxErrors, NanoMultiplier),
               RateMeasurement("network/rx_errors_rate", pod.Network.Time, pod.Network.RxErrors, NanoMultiplier) >>)

\* The mutant of the podContainers map: a later sample of a name always
\* replaces the one found.
RECURSIVE uniqueContainers_KeepLast(_, _)
uniqueContainers_KeepLast(containers, podContainers) ==
    IF containers = <<>> THEN podContainers
    ELSE LET container == Head(containers)
         IN  uniqueContainers_KeepLast(Tail(containers),
                 IF container.Name \notin DOMAIN podContainers THEN podContainers @@ (container.Name :> container)
                 ELSE [podContainers EXCEPT ![container.Name] = container])

\* The podContainers map of a pod: per container name the sample that
\* started last (the first of them when several started together).
RECURSIVE uniqueContainers(_, _)
uniqueContainers(containers, podContainers) ==
    IF containers = <<>> THEN podContainers
    ELSE LET container == Head(containers)
         IN  uniqueContainers(Tail(containers),
                 IF container.Name \notin DOMAIN podContainers THEN podContainers @@ (container.Name :> container)
                 ELSE IF container.StartTime > podContainers[container.Name].StartTime THEN [podContainers EXCEPT ![container.Name] = container]
                 ELSE podContainers)

\* The three throttling metrics, and the exposition series each is read from.
ThrottleMetricNames == {"container_cpu_cfs/periods_total", "container_cpu_cfs_throttled/periods_total", "container_cpu_cfs_throttled/seconds_total"}
ThrottleRefs ==
    << [Name |-> "container_cpu_cfs/periods_total", Ref |-> "container_cpu_cfs_periods_total"],
       [Name |-> "container_cpu_cfs_throttled/periods_total", Ref |-> "container_cpu_cfs_throttled_periods_total"],
       [Name |-> "container_cpu_cfs_throttled/seconds_total", Ref |-> "container_cpu_cfs_throttled_seconds_total"] >>

\* A float64 is kept as the integer number of its thousandths.
FloatScale == 1000

defaultMetricStore(applicationID, serviceID, identifiedContainer, namespace, podName, container) ==
    [ ApplicationID |-> applicationID, ServiceID |-> serviceID, ContainerID |-> identifiedContainer.ID,
      Namespace |-> namespace, PodName |-> podName, ContainerName |-> container.Name,
      Timestamp |-> container.CPU.Time, Value |-> 0 ]

\* The records of one container sample of a resolved pod, and its entry in
\* throttleMetrics; st = [previous, metrics, throttleMetrics].
containerMetrics(st, tick, node, pod, container) ==
    LET found == FindContainer(pod.PodRef.Namespace, pod.PodRef.Name, container.Name)
        identifiedContainer == found.container
        absolutes == addMetricValues(st.metrics, tick, TypePodContainer, node.ID, found.applicationID, found.serviceID, identifiedContainer.ID, pod.PodRef.Name,
                        << Measurement("cpu/usage", container.CPU.Time, container.CPU.UsageCoreNanoSeconds),
                           Measurement("memory/rss", container.Memory.Time, container.Memory.RSSBytes),
                           Measurement("filesystem/usage", container.RootFS.Time, container.RootFS.UsedBytes),
                           Measurement("cpu/request", container.CPU.Time, identifiedContainer.Resources.Requests.cpu),
                           Measurement("cpu/limit", container.CPU.Time, identifiedContainer.Resources.Limits.cpu),
                           Measurement("memory/request", container.Memory.Time, identifiedContainer.Resources.Requests.memory),
                           Measurement("memory/limit", container.Memory.Time, identifiedContainer.Resources.Limits.memory) >>)
        rated == addMetricValueRate([previous |-> st.previous, metrics |-> absolutes], tick, TypePodContainer, pod.PodRef.Namespace \o ":" \o pod.PodRef.Name, container.Name, "cpu/usage_rate", node.ID, found.applicationID, found.serviceID, identifiedContainer.ID, pod.PodRef.Name, container.CPU.Time, container.CPU.UsageCoreNanoSeconds, MilliMultiplier)
        store == defaultMetricStore(found.applicationID, found.serviceID, identifiedContainer, pod.PodRef.Namespace, pod.PodRef.Name, container)
    IN  IF ~found.ok THEN st
        ELSE [ previous |-> rated.previous, metrics |-> rated.metrics,
               throttleMetrics |-> [id \in (DOMAIN st.throttleMetrics) \cup {identifiedContainer.ID} |->
                                       IF id = identifiedContainer.ID THEN [name \in ThrottleMetricNames |-> store] ELSE st.throttleMetrics[id]] ]

\* The unique containers of a pod, ranged over in the order names.
RECURSIVE containersMetrics(_, _, _, _, _, _)
containersMetrics(st, tick, node, pod, podContainers, names) ==
    IF names = <<>> THEN st
    ELSE containersMetrics(containerMetrics(st, tick, node, pod, podContainers[Head(names)]), tick, node, pod, podContainers, Tail(names))

\* The pods of a summary from the i-th on; orders[i] is the order in which
\* the podContainers map of the i-th pod is ranged over.
RECURSIVE podsMetrics(_, _, _, _, _, _)
podsMetrics(st, tick, node, pods, orders, i) ==
    IF i > Len(pods) THEN st
    ELSE LET pod == pods[i]
             found == FindService(pod.PodRef.Namespace, pod.PodRef.Name)
             net == podMetrics(st, tick, node, pod, found)
         IN  IF ~found.ok THEN podsMetrics(st, tick, node, pods, orders, i + 1)
             ELSE podsMetrics(containersMetrics([previous |-> net.previous, metrics |-> net.metrics, throttleMetrics |-> st.throttleMetrics], tick, node, pod, uniqueContainers(pod.Containers, EmptyMap), orders[i]), tick, node, pods, orders, i + 1)

\* The orders the podContainers maps of the pods may be ranged over.
ContainerOrders(pods) ==
    IF pods = <<>> THEN {<<>>} ELSE
    {orders \in [DOMAIN pods -> UNION {Orders(DOMAIN uniqueContainers(pods[i].Containers, EmptyMap)) : i \in DOMAIN pods}] :
        \A i \in DOMAIN pods : orders[i] \in Orders(DOMAIN uniqueContainers(pods[i].Containers, EmptyMap))}

\* All records of a decoded summary; st = [previous, metrics]; the result
\* carries throttleMetrics as well.
summaryMetrics(st, tick, node, summary, orders) ==
    LET n == nodeMetrics(st, tick, node, summary)
    IN  podsMetrics([previous |-> n.previous, metrics |-> n.metrics, throttleMetrics |-> EmptyMap], tick, node, summary.Pods, orders, 1)

\* getCAdvisorContainerValue and the lookup of the container: the values
\* of a series are written into the stored metrics they belong to.
RECURSIVE storeSeries(_, _, _)
storeSeries(throttleMetrics, name, series) ==
    IF series = <<>> THEN throttleMetrics
    ELSE LET val == Head(series)
             found == FindContainerByPodUIDContainerName(val.podUID, val.containerName)
         IN  storeSeries(IF val.ok /\ found.ok /\ found.containerID \in DOMAIN throttleMetrics
                         THEN [throttleMetrics EXCEPT ![found.containerID][name].Value = val.value]
                         ELSE throttleMetrics,
                         name, Tail(series))

RECURSIVE storeCadvisor(_, _, _)
storeCadvisor(throttleMetrics, cadvisor, refs) ==
    IF refs = <<>> THEN throttleMetrics
    ELSE storeCadvisor(storeSeries(throttleMetrics, Head(refs).Name, cadvisor[Head(refs).Ref]), cadvisor, Tail(refs))

\* strings.Contains(metricName, "seconds") on the throttling metrics.
containsSeconds(metricName) == metricName = "container_cpu_cfs_throttled/seconds_total"

\* int64(f) of a float64 f kept in thousandths.
floatToInt(f) == Wrap(Quot(f, FloatScale))

\* The absolute and the rate of one stored throttling metric.
throttleMetric(st, tick, node, summary, now, metricName, storedMetric) ==
    LET absolute == addMetricValue(st.metrics, tick, TypePodContainer, metricName, node.ID, storedMetric.ApplicationID, storedMetric.ServiceID, storedMetric.ContainerID, storedMetric.PodName, summary.Node.CPU.Time, floatToInt(storedMetric.Value))
        rateValue == IF containsSeconds(metricName) THEN storedMetric.Value * 1000 ELSE storedMetric.Value
    IN  addMetricValueRate([previous |-> st.previous, metrics |-> absolute], tick, TypePodContainer, storedMetric.Namespace \o ":" \o storedMetric.PodName, storedMetric.ContainerName, metricName \o "_rate", node.ID, storedMetric.ApplicationID, storedMetric.ServiceID, storedMetric.ContainerID, storedMetric.PodName, now, floatToInt(rateValue), NanoMultiplier)

\* The stored throttling metrics, ranged over in the order of pairs
\* <<container ID, metric name>>.
RECURSIVE throttleEmission(_, _, _, _, _, _, _)
throttleEmission(st, tick, node, summary, now, throttleMetrics, pairs) ==
    IF pairs = <<>> THEN st
    ELSE throttleEmission(throttleMetric(st, tick, node, summary, now, Head(pairs)[2], throttleMetrics[Head(pairs)[1]][Head(pairs)[2]]), tick, node, summary, now, throttleMetrics, Tail(pairs))

\* The orders the two nested maps of throttleMetrics may be ranged over:
\* container after container, the metrics of each in any order.
ThrottleOrders(throttleMetrics) ==
    {flatten([i \in DOMAIN ids |-> [j \in DOMAIN names[ids[i]] |-> <<ids[i], names[ids[i]][j]>>]]) :
        ids \in Orders(DOMAIN throttleMetrics), names \in [DOMAIN throttleMetrics -> Orders(ThrottleMetricNames)]}

\* What the cycle returns: the batch, the raw responses when they were
\* asked for, and no error whatever the node tasks reported.
\* The mutant: a node error fails the cycle.
returnMetrics_FailOnNodeError(batch, rawResponses, optInAnalysisData, errs) ==
    IF \E i \in DOMAIN errs : errs[i] # ErrNil
    THEN [result |-> <<>>, rawResponses |-> None, err |-> "error while scraping nodes metrics"]
    ELSE [result |-> batch, rawResponses |-> IF optInAnalysisData THEN Some(rawResponses) ELSE None, err |-> ErrNil]

returnMetrics(batch, rawResponses, optInAnalysisData, errs) ==
    [result |-> batch, rawResponses |-> IF optInAnalysisData THEN Some(rawResponses) ELSE None, err |-> ErrNil]

\* ------------------------------------------------- GetMetrics: one cycle
\* The summary of node i at time t with counters around v: its pod with
\* two samples of the container web, and a pod the topology does not know.
CPUStats(t, v) == [Time |-> t, UsageCoreNanoSeconds |-> v]
MemoryStats(t, v) == [Time |-> t, RSSBytes |-> v]
FSStats(t, used, capacity) == [Time |-> t, UsedBytes |-> used, CapacityBytes |-> capacity]
NetworkStats(t, rx, tx) == [Time |-> t, RxBytes |-> rx, RxErrors |-> 0, TxBytes |-> tx, TxErrors |-> 0]
ContainerSample(name, start, t, v) == [Name |-> name, StartTime |-> start, CPU |-> CPUStats(t, v), Memory |-> MemoryStats(t, v), RootFS |-> FSStats(t, v, v)]
PodNames == <<"p1", "p2">>
PodUIDs == <<"uid-1", "uid-2">>
SampleSummary(i, t, v) ==
    [ Node |-> [CPU |-> CPUStats(t, v), Memory |-> MemoryStats(t, v), FS |-> FSStats(t, v, v + 1), Network |-> NetworkStats(t, v, v + 1)],
      Pods |-> << [ PodRef |-> [Name |-> PodNames[i], Namespace |-> "ns"], Network |-> NetworkStats(t, v, v + 1),
                    Containers |-> <<ContainerSample("web", 1, t, v), ContainerSample("web", 2, t, v + 1)>> ],
                  [ PodRef |-> [Name |-> "ghost", Namespace |-> "ns"], Network |-> NetworkStats(t, v, v + 1),
                    Containers |-> <<ContainerSample("web", 1, t, v)>> ] >> ]

\* The summary "{}" decodes to.
EmptySummary == [Node |-> [CPU |-> CPUStats(0, 0), Memory |-> MemoryStats(0, 0), FS |-> FSStats(0, 0, 0), Network |-> NetworkStats(0, 0, 0)], Pods |-> <<>>]

\* json.Unmarshal of the summary bytes.
unmarshalSummary(bytes) ==
    IF bytes.json THEN [err |-> ErrNil, summary |-> bytes.doc]
    ELSE [err |-> "unable to unmarshal summary response", summary |-> EmptySummary]

\* What the fetch of stats/summary under withBackoff leaves behind: the
\* body, "{}" for an absent endpoint, or the error after the last retry.
SummaryFetches(i, t) ==
    { [how |-> "ok", err |-> ErrNil, bytes |-> [json |-> TRUE, doc |-> SampleSummary(i, t, 1)]],
      [how |-> "garbled", err |-> ErrNil, bytes |-> [json |-> FALSE]],
      [how |-> "notfound", err |-> ErrNil, bytes |-> [json |-> TRUE, doc |-> EmptySummary]],
      [how |-> "exhausted", err |-> "max retries exceeded", bytes |-> [json |-> FALSE]] }

\* The decoded exposition of node i: the three series, with samples of
\* its pod's web (3.0 periods, 1.0 throttled, for 0.5 seconds), one of a
\* container the topology does not know and one without labels.
Sample(podUID, containerName, value) == [podUID |-> podUID, containerName |-> containerName, value |-> value, ok |-> TRUE]
Unlabelled == [podUID |-> "", containerName |-> "", value |-> 0, ok |-> FALSE]
SampleExposition(i) ==
    [ container_cpu_cfs_periods_total |-> <<Sample(PodUIDs[i], "web", 3000), Unlabelled>>,
      container_cpu_cfs_throttled_periods_total |-> <<Sample("uid-9", "web", 2000), Sample(PodUIDs[i], "web", 1000)>>,
      container_cpu_cfs_throttled_seconds_total |-> <<Sample(PodUIDs[i], "web", 500)>> ]
EmptyExposition ==
    [ container_cpu_cfs_periods_total |-> <<>>, container_cpu_cfs_throttled_periods_total |-> <<>>, container_cpu_cfs_throttled_seconds_total |-> <<>> ]

\* The mutant of decodeCAdvisorResponse: what does not parse is taken as
\* an empty exposition.
decodeCAdvisorResponse_Lenient(bytes) ==
    IF bytes.text THEN [err |-> ErrNil, cadvisor |-> bytes.doc]
    ELSE [err |-> ErrNil, cadvisor |-> EmptyExposition]

\* decodeCAdvisorResponse.
decodeCAdvisorResponse(bytes) ==
    IF bytes.text THEN [err |-> ErrNil, cadvisor |-> bytes.doc]
    ELSE [err |-> "unable to read cadvisor response", cadvisor |-> EmptyExposition]

\* What the fetch of metrics/cadvisor under withBackoff leaves behind.
CadvisorFetches(i) ==
    { [how |-> "ok", err |-> ErrNil, bytes |-> [text |-> TRUE, doc |-> SampleExposition(i)]],
      [how |-> "garbled", err |-> ErrNil, bytes |-> [text |-> FALSE]],
      [how |-> "notfound", err |-> ErrNil, bytes |-> [text |-> TRUE, doc |-> EmptyExposition]],
      [how |-> "exhausted", err |-> "max retries exceeded", bytes |-> [text |-> FALSE]] }

\* The rate table an earlier cycle at tick 1 leaves behind when both nodes
\* answered in full: the entries of the task of each node.
PriorScrape(i) ==
    LET summary == SampleSummary(i, 1, 0)
        s == summaryMetrics([previous |-> EmptyMap, metrics |-> <<>>], 1, Nodes[i], summary, CHOOSE o \in ContainerOrders(summary.Pods) : TRUE)
        tm == storeCadvisor(s.throttleMetrics, EmptyExposition, ThrottleRefs)
    IN  throttleEmission([previous |-> s.previous, metrics |-> <<>>], 1, Nodes[i], summary, 2, tm, CHOOSE o \in ThrottleOrders(tm) : TRUE).previous
PriorTable == PriorScrape(1) @@ PriorScrape(2)

ReadyTask == [pc |-> "ready", err |-> ErrNil, summary |-> EmptySummary, throttleMetrics |-> EmptyMap, produced |-> <<>>, raw |-> None, how |-> <<>>]

InitMetrics ==
    /\ previous \in {EmptyMap, PriorTable}
    /\ metrics = <<>>
    /\ tickTime = 0
    /\ scrape \in [pc : {"idle"}, optInAnalysisData : BOOLEAN, snapshotRecords : {<<>>}]
    /\ tasks = <<>>
    /\ result = [op |-> "none"]
    /\ last = [op |-> "init"]
    /\ BackoffIdle
    /\ KubeIdle

\* GetMetrics up to pr.Do(): garbage collection, the records of the node
\* list and the resource-plan records of the applications.
GetMetricsStart(tick, now, groupOrder) ==
    /\ scrape.pc = "idle"
    /\ previous' = collectGarbage(previous, now)
    /\ tickTime' = tick
    /\ metrics' = resourcePlanMetrics(snapshotMetrics(<<>>, tick, Nodes, groupOrder), tick, allContainers(Applications))
    /\ scrape' = [scrape EXCEPT !.pc = "running", !.snapshotRecords = metrics']
    /\ tasks' = [i \in DOMAIN Nodes |-> ReadyTask]
    /\ last' = [op |-> "start"]
    /\ UNCHANGED <<result, backoffVars, kubeVars>>

\* The task of node i from its start to the end of the pods of the
\* summary: fetch, decode, node, pod and container records.
NodeSummary(i, fetch, orders) ==
    /\ scrape.pc = "running"
    /\ tasks[i].pc = "ready"
    /\ LET decoded == unmarshalSummary(fetch.bytes)
           st == summaryMetrics([previous |-> previous, metrics |-> metrics], tickTime, Nodes[i], decoded.summary, orders)
           raw == IF scrape.optInAnalysisData /\ fetch.bytes.json THEN Some(fetch.bytes.doc) ELSE None
       IN  IF fetch.err # ErrNil
           THEN /\ tasks' = [tasks EXCEPT ![i] = [@ EXCEPT !.pc = "done", !.err = fetch.err, !.how = <<fetch.how>>]]
                /\ UNCHANGED <<previous, metrics>>
           ELSE IF decoded.err # ErrNil
           THEN /\ tasks' = [tasks EXCEPT ![i] = [@ EXCEPT !.pc = "done", !.err = decoded.err, !.raw = raw, !.how = <<fetch.how>>]]
                /\ UNCHANGED <<previous, metrics>>
           ELSE /\ orders \in ContainerOrders(decoded.summary.Pods)
                /\ previous' = st.previous
                /\ metrics' = st.metrics
                /\ tasks' = [tasks EXCEPT ![i] = [@ EXCEPT !.pc = "summary", !.summary = decoded.summary, !.throttleMetrics = st.throttleMetrics, !.raw = raw, !.how = <<fetch.how>>,
                                                             !.produced = SubSeq(st.metrics, Len(metrics) + 1, Len(st.metrics))]]
    /\ last' = [op |-> "summary", node |-> i]
    /\ UNCHANGED <<tickTime, scrape, result, backoffVars, kubeVars>>

\* The rest of the task of node i: the exposition is fetched and decoded,
\* its values are stored and the throttling records are emitted.
NodeCadvisor(i, fetch, now, pairs) ==
    /\ scrape.pc = "running"
    /\ tasks[i].pc = "summary"
    /\ LET decoded == decodeCAdvisorResponse(fetch.bytes)
           throttleMetrics == storeCadvisor(tasks[i].throttleMetrics, decoded.cadvisor, ThrottleRefs)
           st == throttleEmission([previous |-> previous, metrics |-> metrics], tickTime, Nodes[i], tasks[i].summary, now, throttleMetrics, pairs)
       IN  IF fetch.err # ErrNil
           THEN /\ tasks' = [tasks EXCEPT ![i] = [@ EXCEPT !.pc = "done", !.err = fetch.err, !.how = Append(@, fetch.how)]]
                /\ UNCHANGED <<previous, metrics>>
           ELSE IF decoded.err # ErrNil
           THEN /\ tasks' = [tasks EXCEPT ![i] = [@ EXCEPT !.pc = "done", !.err = decoded.err, !.how = Append(@, fetch.how)]]
                /\ UNCHANGED <<previous, metrics>>
           ELSE /\ pairs \in ThrottleOrders(throttleMetrics)
                /\ previous' = st.previous
                /\ metrics' = st.metrics
                /\ tasks' = [tasks EXCEPT ![i] = [@ EXCEPT !.pc = "done", !.throttleMetrics = throttleMetrics, !.how = Append(@, fetch.how),
                                                             !.produced = @ \o SubSeq(st.metrics, Len(metrics) + 1, Len(st.metrics))]]
    /\ last' = [op |-> "cadvisor", node |-> i]
    /\ UNCHANGED <<tickTime, scrape, result, backoffVars, kubeVars>>

\* The rawResponses map: node ID -> the summary as it was received.
rawResponses(ts) ==
    LET withRaw == {j \in DOMAIN ts : ts[j].raw # None}
    IN  [id \in {Nodes[j].ID : j \in withRaw} |-> Val(ts[CHOOSE j \in withRaw : Nodes[j].ID = id].raw)]

\* pr.Do() has returned, every task having finished: the errors are
\* logged and the batch is returned.
GetMetricsReturn ==
    /\ scrape.pc = "running"
    /\ \A i \in DOMAIN tasks : tasks[i].pc = "done"
    /\ result' = [op |-> "GetMetrics"] @@ returnMetrics(metrics, rawResponses(tasks), scrape.optInAnalysisData, [i \in DOMAIN tasks |-> tasks[i].err])
    /\ scrape' = [scrape EXCEPT !.pc = "returned"]
    /\ last' = [op |-> "return"]
    /\ UNCHANGED <<rateVars, tasks, backoffVars, kubeVars>>

\* The orders a task may be handed: those of the sample summary and of
\* "{}", and those of the throttling metrics it has stored.
SummaryOrders(i, t) == ContainerOrders(SampleSummary(i, t, 1).Pods) \cup ContainerOrders(EmptySummary.Pods)

NextMetrics ==
    \/ \E groupOrder \in Orders(DOMAIN instanceGroups(Nodes)) : GetMetricsStart(MaxTime, MaxTime, groupOrder)
    \/ \E i \in DOMAIN tasks : \E fetch \in SummaryFetches(i, MaxTime), orders \in SummaryOrders(i, MaxTime) : NodeSummary(i, fetch, orders)
    \/ \E i \in DOMAIN tasks : \E fetch \in CadvisorFetches(i), pairs \in ThrottleOrders(tasks[i].throttleMetrics) : NodeCadvisor(i, fetch, MaxTime + 1, pairs)
    \/ GetMetricsReturn

SpecMetrics == InitMetrics /\ [][NextMetrics]_vars

\* ------------------------------------------- the containers of one pod
\* How many container samples a pod of a summary reports.
MaxPodContainers == 3

\* The samples pod p1 may report: of its container web or of a container
\* the topology does not know, started at 0, 1 or 2, with usage 1 or 2.
PodSamples == {ContainerSample(n, start, MaxTime, v) : n \in {"web", "db"}, start \in 0 .. 2, v \in 1 .. 2}

InitPod ==
    /\ pending \in {[op |-> "pod", pod |-> [PodRef |-> [Name |-> PodNames[1], Namespace |-> "ns"], Containers |-> cs]] : cs \in SeqsUpTo(PodSamples, MaxPodContainers)}
    /\ returned = [op |-> "none"]
    /\ previous = EmptyMap
    /\ metrics = <<>>
    /\ tickTime = MaxTime
    /\ last = [op |-> "init"]
    /\ BackoffIdle
    /\ ScrapeIdle

\* The containers of the pending pod as the task of node 1 handles them:
\* the podContainers map is built and ranged over in the order names.
PodContainers(names) ==
    /\ pending.op = "pod"
    /\ LET podContainers == uniqueContainers(pending.pod.Containers, EmptyMap)
           st == containersMetrics([previous |-> previous, metrics |-> metrics, throttleMetrics |-> EmptyMap], tickTime, Nodes[1], pending.pod, podContainers, names)
       IN  /\ Len(names) = Cardinality(DOMAIN podContainers)
           /\ \A n \in DOMAIN podContainers : \E i \in DOMAIN names : names[i] = n
           /\ previous' = st.previous
           /\ metrics' = st.metrics
           /\ returned' = [op |-> "pod", podContainers |-> podContainers]
    /\ pending' = [op |-> "none"]
    /\ last' = pending
    /\ UNCHANGED <<tickTime, backoffVars, scrapeVars>>

NextPod == \E names \in SeqsUpTo({"web", "db"}, 2) : PodContainers(names)

SpecPod == InitPod /\ [][NextPod]_vars

\* ------------------------------------------- the pods of one node
\* How many pods the summary of the node lists at most.
MaxNodePods == 2

\* A pod of a summary with one sample of the container web.
SummaryPod(name) ==
    [ PodRef |-> [Name |-> name, Namespace |-> "ns"], Network |-> NetworkStats(MaxTime, 1, 2),
      Containers |-> <<ContainerSample("web", 1, MaxTime, 1)>> ]

\* The pods a node may run: the replicas p1 and p2 of the service of web,
\* and a pod the topology does not know.
NodePodNames == {"p1", "p2", "ghost"}

\* The UID of a pod of the index.
PodUID(name) == (CHOOSE p \in PodIndex : p.Name = name).UID

\* The series of a throttling metric: per pod of vals a sample of its web.
RECURSIVE Series(_, _)
Series(vals, uids) ==
    IF uids = <<>> THEN <<>>
    ELSE (IF vals[Head(uids)] = 0 THEN <<>> ELSE <<Sample(Head(uids), "web", vals[Head(uids)])>>) \o Series(vals, Tail(uids))

\* The summary and the exposition of node n1: its pods in the order of
\* the summary, and per replica running on the node the periods its web
\* has run (3.0 or 5.0, none when 0), one of them throttled.
InitNodePods ==
    /\ \E pods \in SeqsUpTo(NodePodNames, MaxNodePods), vals \in [{"uid-1", "uid-2"} -> {0, 3000, 5000}] :
          /\ pods # <<>>
          /\ \A a, b \in DOMAIN pods : a # b => pods[a] # pods[b]
          /\ \A u \in DOMAIN vals : vals[u] # 0 => \E k \in DOMAIN pods : pods[k] # "ghost" /\ PodUID(pods[k]) = u
          /\ pending = [ op |-> "nodeTask",
                         summary |-> [Node |-> SampleSummary(1, MaxTime, 1).Node, Pods |-> [k \in DOMAIN pods |-> SummaryPod(pods[k])]],
                         cadvisor |-> [ container_cpu_cfs_periods_total |-> Series(vals, <<"uid-1", "uid-2">>),
                                        container_cpu_cfs_throttled_periods_total |-> Series([u \in DOMAIN vals |-> IF vals[u] = 0 THEN 0 ELSE 1000], <<"uid-1", "uid-2">>),
                                        container_cpu_cfs_throttled_seconds_total |-> <<>> ] ]
    /\ returned = [op |-> "nodeTask", pc |-> "node", pod |-> 1, throttleMetrics |-> EmptyMap]
    /\ previous = <<>>
    /\ metrics = <<>>
    /\ tickTime = MaxTime
    /\ last = [op |-> "init"]
    /\ BackoffIdle
    /\ ScrapeIdle

\* The task of node n1 from the decoded summary to its pods: the records
\* of the node.
NodeScope ==
    /\ returned.op = "nodeTask"
    /\ returned.pc = "node"
    /\ LET st == nodeMetrics([previous |-> previous, metrics |-> metrics], tickTime, Nodes[1], pending.summary)
       IN  previous' = st.previous /\ metrics' = st.metrics
    /\ returned' = [returned EXCEPT !.pc = "pods"]
    /\ last' = [op |-> "node"]
    /\ UNCHANGED <<tickTime, pending, backoffVars, scrapeVars>>

\* One turn of the loop over the pods of the summary; order is the order
\* in which the podContainers map of the pod is ranged over.
NodePod(order) ==
    /\ returned.op = "nodeTask"
    /\ returned.pc = "pods"
    /\ LET pod == pending.summary.Pods[returned.pod]
           st == podsMetrics([previous |-> previous, metrics |-> metrics, throttleMetrics |-> returned.throttleMetrics], tickTime, Nodes[1], <<pod>>, <<order>>, 1)
       IN  /\ order \in Orders(DOMAIN uniqueContainers(pod.Containers, EmptyMap))
           /\ previous' = st.previous
           /\ metrics' = st.metrics
           /\ returned' = [returned EXCEPT !.pc = IF returned.pod = Len(pending.summary.Pods) THEN "cadvisor" ELSE @, !.pod = @ + 1, !.throttleMetrics = st.throttleMetrics]
    /\ last' = [op |-> "pod"]
    /\ UNCHANGED <<tickTime, pending, backoffVars, scrapeVars>>

\* The rest of the task: the values of the exposition are stored and the
\* throttling records are emitted, the stored metrics ranged over in the
\* order of pairs.
NodeThrottle(pairs) ==
    /\ returned.op = "nodeTask"
    /\ returned.pc = "cadvisor"
    /\ LET throttleMetrics == storeCadvisor(returned.throttleMetrics, pending.cadvisor, ThrottleRefs)
           st == throttleEmission([previous |-> previous, metrics |-> metrics], tickTime, Nodes[1], pending.summary, MaxTime + 1, throttleMetrics, pairs)
       IN  /\ pairs \in ThrottleOrders(throttleMetrics)
           /\ previous' = st.previous
           /\ metrics' = st.metrics
           /\ returned' = [returned EXCEPT !.pc = "done", !.throttleMetrics = throttleMetrics]
    /\ last' = [op |-> "nodeTask"]
    /\ UNCHANGED <<tickTime, pending, backoffVars, scrapeVars>>

NextNodePods ==
    \/ NodeScope
    \/ \E order \in Orders({"web"}) : NodePod(order)
    \/ \E pairs \in ThrottleOrders(returned.throttleMetrics) : NodeThrottle(pairs)

SpecNodePods == InitNodePods /\ [][NextNodePods]_vars

\* ------------------------------------------------------ GetMetrics: claims
Returned == scrape.pc = "returned"

\* How often a record occurs in a batch.
Count(batch, r) == Cardinality({i \in DOMAIN batch : batch[i] = r})

\* The snapshot-derived records of the cycle followed by the records of
\* the node tasks that reported no error.
SucceededRecords == scrape.snapshotRecords \o flatten([i \in DOMAIN tasks |-> IF tasks[i].err = ErrNil THEN tasks[i].produced ELSE <<>>])

\* C5 (partial results): whichever node tasks failed, GetMetrics returns a
\* nil error and a batch holding every snapshot-derived record and every
\* record of the node tasks that succeeded.
C5_PartialResults ==
    Returned =>
        /\ result.err = ErrNil
        /\ \A i \in DOMAIN SucceededRecords : Count(result.result, SucceededRecords[i]) >= Count(SucceededRecords, SucceededRecords[i])

\* C5 witness: a cycle has returned in which one node exhausted its
\* retries, one failed to parse, or both, and another node's task went
\* through with records of its own.
C5_Witness ==
    /\ Returned
    /\ \E i \in DOMAIN tasks : tasks[i].err = "max retries exceeded"
    /\ \E i \in DOMAIN tasks : tasks[i].err = ErrNil /\ tasks[i].how = <<"ok", "ok">> /\ Len(tasks[i].produced) > 0
    /\ Len(result.result) > Len(scrape.snapshotRecords)

\* The identifiers a record of each type must and must not carry.
ScopeOf(r) ==
    CASE r.Type = TypeCluster -> r.Node = Nil /\ r.Application = Nil /\ r.Service = Nil /\ r.Container = Nil
      [] r.Type = TypeNode -> r.Node # Nil /\ r.Application = Nil /\ r.Service = Nil /\ r.Container = Nil
      [] r.Type = TypePod -> r.Node # Nil /\ r.Application # Nil /\ r.Service # Nil /\ r.Container = Nil
      [] r.Type = TypePodContainer -> r.Node # Nil /\ r.Application # Nil /\ r.Service # Nil /\ r.Container # Nil
      [] OTHER -> FALSE

\* C8 (identifier scope), as claimed: every record of a returned batch has
\* exactly the identifiers of its type - Cluster none, Node the node, Pod
\* node, application and service, PodContainer all four.
C8_IdentifierScope == Returned => \A i \in DOMAIN result.result : ScopeOf(result.result[i])

\* A resource-plan record: of type PodContainer, from the snapshot.
ResourcePlanRecord(r) ==
    /\ r.Type = TypePodContainer
    /\ r.Name \in {"cpu/request", "cpu/limit", "memory/request", "memory/limit"}
    /\ r.Node = Nil /\ r.Application # Nil /\ r.Service # Nil /\ r.Container # Nil
    /\ r.PodName = ""

\* C8, amended: every record of a returned batch has exactly the
\* identifiers of its type, except that the PodContainer records emitted
\* from the snapshot (the resource plan: cpu and memory request and limit
\* per container, with no pod name) carry a nil Node; every record a node
\* task emits carries that node's ID, and no snapshot-derived PodContainer
\* record carries a Node.
C8_IdentifierScopeByOrigin ==
    Returned =>
        /\ \A i \in DOMAIN result.result : ScopeOf(result.result[i]) \/ ResourcePlanRecord(result.result[i])
        /\ \A n \in DOMAIN tasks : \A i \in DOMAIN tasks[n].produced : tasks[n].produced[i].Node = Nodes[n].ID /\ ScopeOf(tasks[n].produced[i])
        /\ \A i \in DOMAIN scrape.snapshotRecords :
              LET r == scrape.snapshotRecords[i]
              IN  IF r.Type = TypePodContainer THEN ResourcePlanRecord(r) ELSE ScopeOf(r)

\* C8 witness: a returned batch with records of all four types, among
\* them PodContainer records of a node task and of the resource plan.
C8_Witness ==
    /\ Returned
    /\ \A t \in {TypeCluster, TypeNode, TypePod, TypePodContainer} : \E i \in DOMAIN result.result : result.result[i].Type = t
    /\ \E i \in DOMAIN result.result : result.result[i].Type = TypePodContainer /\ result.result[i].Node # Nil
    /\ \E i \in DOMAIN result.result : ResourcePlanRecord(result.result[i])

\* The nodes whose stats/summary answered "the server could not find the
\* requested resource".
EndpointAbsent(i) == tasks[i].how # <<>> /\ tasks[i].how[1] = "notfound"

\* The records of a batch that carry the ID of node i and are not among
\* the snapshot-derived ones.
NodeTaskRecords(batch, i) == {k \in DOMAIN batch : batch[k].Node = Nodes[i].ID /\ \A j \in DOMAIN scrape.snapshotRecords : scrape.snapshotRecords[j] # batch[k]}

\* C11 (endpoint absent), as claimed: a node whose stats/summary could not
\* be found contributes no summary-derived record (no node absolute or
\* rate, no pod or container record) to the returned batch, the cycle
\* returns a nil error, and the resource-plan records of the snapshot are
\* in the batch.
C11_AbsentEndpointContributesNothing ==
    Returned =>
        \A i \in DOMAIN tasks :
            EndpointAbsent(i) =>
                /\ tasks[i].produced = <<>>
                /\ NodeTaskRecords(result.result, i) = {}
                /\ result.err = ErrNil
                /\ \E k \in DOMAIN result.result : ResourcePlanRecord(result.result[k])

\* The value the snapshot holds for a resource-plan metric of a container.
PlanValue(container, name) ==
    CASE name = "cpu/request" -> container.Resources.Requests.cpu
      [] name = "cpu/limit" -> container.Resources.Limits.cpu
      [] name = "memory/request" -> container.Resources.Requests.memory
      [] name = "memory/limit" -> container.Resources.Limits.memory

\* The resource-plan records of a batch for one container and one name.
PlanRecords(batch, entry, name) ==
    {k \in DOMAIN batch : /\ ResourcePlanRecord(batch[k])
                          /\ batch[k].Name = name
                          /\ batch[k].Application = entry.app.ID
                          /\ batch[k].Service = entry.service.ID
                          /\ batch[k].Container = entry.container.ID}

\* C12 (resource-plan metrics): every returned batch holds, for every
\* (application, service, container) of the snapshot, exactly one
\* cpu/request, one cpu/limit, one memory/request and one memory/limit
\* record of type PodContainer from the resource plan, stamped with the
\* apps scan time and carrying the snapshot's value, whatever became of
\* the node tasks.
C12_ResourcePlanOncePerContainer ==
    Returned =>
        \A e \in DOMAIN allContainers(Applications) :
            \A name \in {"cpu/request", "cpu/limit", "memory/request", "memory/limit"} :
                LET entry == allContainers(Applications)[e]
                    hits == PlanRecords(result.result, entry, name)
                IN  /\ Cardinality(hits) = 1
                    /\ \A k \in hits : result.result[k].Timestamp = ScanTimes.apps /\ result.result[k].Value = PlanValue(entry.container, name)

\* C12 witness: a cycle has returned in which every node task failed, and
\* the batch holds the limit of the web container.
C12_Witness ==
    /\ Returned
    /\ \A i \in DOMAIN tasks : tasks[i].err # ErrNil
    /\ Len(allContainers(Applications)) > 1
    /\ \E k \in DOMAIN result.result : ResourcePlanRecord(result.result[k]) /\ result.result[k].Name = "cpu/limit" /\ result.result[k].Container = WebContainer.ID

\* The samples of a name among the containers a pod reported, and the
\* latest start among them.
SamplesOf(containers, name) == {i \in DOMAIN containers : containers[i].Name = name}
LatestStart(containers, name) == CHOOSE t \in {containers[i].StartTime : i \in SamplesOf(containers, name)} : \A i \in SamplesOf(containers, name) : containers[i].StartTime <= t

\* The samples of a name that reached emission: one cpu/usage record each.
EmittedSamples(name) == {k \in DOMAIN metrics : metrics[k].Name = "cpu/usage" /\ metrics[k].Type = TypePodContainer /\ metrics[k].Container = FindContainer("ns", PodNames[1], name).container.ID}

\* C17 (container deduplication): of the samples a pod reports under one
\* container name at most one reaches emission, and it is one with the
\* greatest StartTime among them; the podContainers map holds exactly one
\* sample per reported name, one that started last.
C17_LatestSamplePerName ==
    returned.op = "pod" =>
        LET containers == last.pod.Containers
        IN  /\ DOMAIN returned.podContainers = {containers[i].Name : i \in DOMAIN containers}
            /\ \A name \in DOMAIN returned.podContainers :
                  /\ returned.podContainers[name] \in {containers[i] : i \in SamplesOf(containers, name)}
                  /\ returned.podContainers[name].StartTime = LatestStart(containers, name)
                  /\ Cardinality(EmittedSamples(name)) <= 1
                  /\ \A k \in EmittedSamples(name) : metrics[k].Value = returned.podContainers[name].CPU.UsageCoreNanoSeconds
            /\ Cardinality(EmittedSamples("web")) = IF SamplesOf(containers, "web") = {} THEN 0 ELSE 1

\* C17 witness: the pod reported web started at 2 and then web started at
\* 1 with another usage; one cpu/usage record was emitted, with the usage
\* of the sample started at 2.
C17_Witness ==
    /\ returned.op = "pod"
    /\ Len(last.pod.Containers) = 2
    /\ last.pod.Containers[1] = ContainerSample("web", 2, MaxTime, 1)
    /\ last.pod.Containers[2] = ContainerSample("web", 1, MaxTime, 2)
    /\ Cardinality(EmittedSamples("web")) = 1
    /\ \A k \in EmittedSamples("web") : metrics[k].Value = 1

\* The throttling records a node task appended for a stored metric.
ThrottleAbsolutes(i, id, name) ==
    {k \in DOMAIN tasks[i].produced : tasks[i].produced[k].Type = TypePodContainer /\ tasks[i].produced[k].Name = name /\ tasks[i].produced[k].Container = id}

\* C31 (throttling absolutes), as claimed: the absolute record of
\* container_cpu_cfs_throttled/seconds_total carries the sample of the
\* exposition multiplied by 1000, the value its rate is fed; the absolutes
\* of the two periods metrics carry the sample as it is; each is stamped
\* with the node CPU timestamp of the summary.
C31_SecondsAbsoluteInMillis ==
    \A i \in DOMAIN tasks : \A id \in DOMAIN tasks[i].throttleMetrics, name \in ThrottleMetricNames :
        \A k \in ThrottleAbsolutes(i, id, name) :
            LET sample == tasks[i].throttleMetrics[id][name].Value
            IN  /\ tasks[i].produced[k].Value = floatToInt(IF containsSeconds(name) THEN sample * 1000 ELSE sample)
                /\ tasks[i].produced[k].Timestamp = rateTimestamp(tickTime, tasks[i].summary.Node.CPU.Time)

\* The node tasks whose summary was processed and whose metrics/cadvisor
\* fetch then exhausted its retries or gave a response that did not parse.
CadvisorFailed(i) == tasks[i].pc = "done" /\ Len(tasks[i].how) = 2 /\ tasks[i].how[2] \in {"exhausted", "garbled"}

\* The names of the throttling records, absolute and rate.
ThrottleRecordNames == ThrottleMetricNames \cup {name \o "_rate" : name \in ThrottleMetricNames}

\* The node-scope rate measurements of a summary.
NodeRateNames == {"cpu/usage_rate", "network/tx_rate", "network/rx_rate", "network/tx_errors_rate", "network/rx_errors_rate"}

\* C34 (cadvisor failure after the summary): when the metrics/cadvisor
\* fetch of a node exhausts its retries or its response does not parse,
\* the records the task appended from the summary stay in the batch (the
\* returned one, once the cycle has returned), the rate-table entries of
\* the node and of its resolved pods hold the observations of the
\* summary, no throttling record, absolute or rate, is emitted for the
\* node, and the node task reports an error.
C34_CadvisorFailureKeepsSummary ==
    \A i \in DOMAIN tasks :
        CadvisorFailed(i) =>
            LET batch == IF Returned THEN result.result ELSE metrics
                summary == tasks[i].summary
            IN  /\ tasks[i].err # ErrNil
                /\ \A k \in DOMAIN tasks[i].produced : Count(batch, tasks[i].produced[k]) >= Count(tasks[i].produced, tasks[i].produced[k])
                /\ \A k \in DOMAIN batch : batch[k].Node = Nodes[i].ID => batch[k].Name \notin ThrottleRecordNames
                /\ \A name \in NodeRateNames :
                      LET key == getKey(TypeNode, "", Nodes[i].ID, name)
                      IN  /\ key \in DOMAIN previous
                          /\ previous[key].Timestamp = rateTimestamp(tickTime, IF name = "cpu/usage_rate" THEN summary.Node.CPU.Time ELSE summary.Node.Network.Time)
                /\ getKey(TypeNode, "", Nodes[i].ID, "cpu/usage_rate") \in DOMAIN previous
                      => previous[getKey(TypeNode, "", Nodes[i].ID, "cpu/usage_rate")].Value = summary.Node.CPU.UsageCoreNanoSeconds
                /\ \A p \in DOMAIN summary.Pods :
                      FindService(summary.Pods[p].PodRef.Namespace, summary.Pods[p].PodRef.Name).ok =>
                          LET key == getKey(TypePod, summary.Pods[p].PodRef.Namespace, summary.Pods[p].PodRef.Name, "network/tx_rate")
                          IN  /\ key \in DOMAIN previous
                              /\ previous[key] = KubeletValue(rateTimestamp(tickTime, summary.Pods[p].Network.Time), summary.Pods[p].Network.TxBytes)

\* C34 witness: the cycle has returned; the exposition of one node did not
\* parse and the fetch of the other's exhausted its retries, both after a
\* summary with a resolved pod, and the batch holds their summary records.
C34_Witness ==
    /\ Returned
    /\ \E i, j \in DOMAIN tasks : tasks[i].how = <<"ok", "garbled">> /\ tasks[j].how = <<"ok", "exhausted">>
    /\ \A i \in DOMAIN tasks : CadvisorFailed(i) /\ Len(tasks[i].produced) > 0 /\ tasks[i].err # ErrNil
    /\ \E k \in DOMAIN result.result : result.result[k].Type = TypePodContainer /\ result.result[k].Name = "cpu/usage" /\ result.result[k].Node = Nodes[1].ID

\* ------------------------------------------- the accumulator and its mutex
\* How many records a node task appends at most.
MaxAppends == 2

\* The k-th record the task of node i appends.
TaskRecord(i, k) == Metric(TypeNode, <<"cpu/usage", "memory/rss", "filesystem/usage">>[k], Nodes[i].ID, Nil, Nil, Nil, "", MaxTime, k, NoTags)

\* The mutant of metricsMutex.Lock(): it never blocks.
lockable_Always(mutex) == TRUE

\* metricsMutex.Lock() returns when nobody holds the mutex.
lockable(mutex) == mutex = <<>>

\* The mutant of pr.Do(): it returns when one task has.
tasksJoined_AnyDone(ts) == \E i \in DOMAIN ts : ts[i].pc = "done"

\* pr.Do() returns when every task has.
tasksJoined(ts) == \A i \in DOMAIN ts : ts[i].pc = "done"

\* GetMetrics at pr.Do(): the batch holds the snapshot-derived records,
\* every node task is about to append its records.
InitBatch ==
    /\ previous = <<>>
    /\ tickTime = MaxTime
    /\ metrics = resourcePlanMetrics(snapshotMetrics(<<>>, MaxTime, Nodes, CHOOSE o \in Orders(DOMAIN instanceGroups(Nodes)) : TRUE), MaxTime, allContainers(Applications))
    /\ scrape = [pc |-> "running", mutex |-> <<>>, snapshotRecords |-> metrics]
    /\ tasks \in [DOMAIN Nodes -> [pc : {"ready"}, total : 0..MaxAppends, local : {<<>>}, produced : {<<>>}, unlocked : {0}]]
    /\ result = [op |-> "none"]
    /\ last = [op |-> "init"]
    /\ BackoffIdle
    /\ KubeIdle

\* A task with nothing left to append returns.
BatchTaskReturn(i) ==
    /\ scrape.pc = "running"
    /\ tasks[i].pc = "ready"
    /\ Len(tasks[i].produced) = tasks[i].total
    /\ tasks' = [tasks EXCEPT ![i].pc = "done"]
    /\ last' = [op |-> "taskReturn", node |-> i]
    /\ UNCHANGED <<rateVars, scrape, result, backoffVars, kubeVars>>

\* addMetricValue: metricsMutex.Lock().
BatchLock(i) ==
    /\ scrape.pc = "running"
    /\ tasks[i].pc = "ready"
    /\ Len(tasks[i].produced) < tasks[i].total
    /\ lockable(scrape.mutex)
    /\ scrape' = [scrape EXCEPT !.mutex = <<i>>]
    /\ tasks' = [tasks EXCEPT ![i].pc = "locked"]
    /\ last' = [op |-> "lock", node |-> i]
    /\ UNCHANGED <<rateVars, result, backoffVars, kubeVars>>

\* addMetricValue: append reads the slice metrics.
BatchRead(i) ==
    /\ tasks[i].pc = "locked"
    /\ tasks' = [tasks EXCEPT ![i].pc = "read", ![i].local = metrics]
    /\ last' = [op |-> "read", node |-> i]
    /\ UNCHANGED <<rateVars, scrape, result, backoffVars, kubeVars>>

\* addMetricValue: metrics is assigned the slice with the record added,
\* and the deferred Unlock runs.
BatchAppend(i) ==
    /\ tasks[i].pc = "read"
    /\ LET r == TaskRecord(i, Len(tasks[i].produced) + 1)
       IN  /\ metrics' = Append(tasks[i].local, r)
           /\ tasks' = [tasks EXCEPT ![i].pc = "ready", ![i].local = <<>>, ![i].produced = Append(@, r),
                                      ![i].unlocked = IF Holds(i) THEN @ ELSE @ + 1]
    /\ scrape' = [scrape EXCEPT !.mutex = <<>>]
    /\ last' = [op |-> "append", node |-> i]
    /\ UNCHANGED <<previous, tickTime, result, backoffVars, kubeVars>>

\* pr.Do() has returned: the batch is read and returned.
BatchReturn ==
    /\ scrape.pc = "running"
    /\ tasksJoined(tasks)
    /\ result' = [op |-> "GetMetrics", result |-> metrics, err |-> ErrNil]
    /\ scrape' = [scrape EXCEPT !.pc = "returned"]
    /\ last' = [op |-> "return"]
    /\ UNCHANGED <<rateVars, tasks, backoffVars, kubeVars>>

NextBatch ==
    \/ \E i \in DOMAIN tasks : BatchTaskReturn(i)
    \/ \E i \in DOMAIN tasks : BatchLock(i)
    \/ \E i \in DOMAIN tasks : BatchRead(i)
    \/ \E i \in DOMAIN tasks : BatchAppend(i)
    \/ BatchReturn

SpecBatch == InitBatch /\ [][NextBatch]_vars

\* The snapshot-derived records followed by the records every node task
\* is to append.
ExpectedBatch == scrape.snapshotRecords \o flatten([i \in DOMAIN tasks |-> [k \in 1..tasks[i].total |-> TaskRecord(i, k)]])

\* C27 (the batch under its mutex): however the node tasks interleave,
\* the batch GetMetrics returns holds exactly the snapshot-derived records
\* and the records the tasks appended - each as often as it was appended,
\* none besides -, every append was made holding the accumulator mutex,
\* and every node task had returned when the batch was read.
C27_BatchIsWhatWasAppended ==
    Returned =>
        /\ Len(result.result) = Len(ExpectedBatch)
        /\ \A k \in DOMAIN ExpectedBatch : Count(result.result, ExpectedBatch[k]) = Count(ExpectedBatch, ExpectedBatch[k])
        /\ \A i \in DOMAIN tasks : tasks[i].pc = "done" /\ tasks[i].unlocked = 0 /\ Len(tasks[i].produced) = tasks[i].total

\* C27 witness: the cycle has returned after two tasks appended two
\* records each, the second task's first record ahead of the first
\* task's last.
C27_Witness ==
    /\ Returned
    /\ \A i \in DOMAIN tasks : tasks[i].total = 2
    /\ \E a, b \in DOMAIN result.result : a < b /\ result.result[a] = TaskRecord(2, 1) /\ result.result[b] = TaskRecord(1, 2)
    /\ \E a, b \in DOMAIN result.result : a < b /\ result.result[a] = TaskRecord(1, 1) /\ result.result[b] = TaskRecord(2, 2)

\* ------------------------------------------------ the pods of one node: claims
\* The value the exposition holds for the container of a pod in a series,
\* in thousandths; 0 when it holds none.
OwnSample(ref, podName, containerName) ==
    LET series == pending.cadvisor[ref]
        hits == {k \in DOMAIN series : series[k].ok /\ series[k].podUID = PodUID(podName) /\ series[k].containerName = containerName}
    IN  IF hits = {} THEN 0 ELSE series[CHOOSE k \in hits : \A j \in hits : j <= k].value

\* The throttling records of a metric the batch holds for a pod.
ThrottleRecords(name, podName, containerID) ==
    {k \in DOMAIN metrics : metrics[k].Type = TypePodContainer /\ metrics[k].Name = name /\ metrics[k].PodName = podName /\ metrics[k].Container = containerID}

\* C29 (throttling records per pod), as claimed: for every container of
\* every resolved pod of the summary that resolves in the topology, the
\* node task emits exactly one absolute record of each throttling metric
\* with that pod's name, carrying the pod's own sample (zero without
\* one) - replicas sharing one ContainerID on the node included.
C29_ThrottleRecordPerPod ==
    last.op = "nodeTask" =>
        \A i \in DOMAIN pending.summary.Pods, r \in DOMAIN ThrottleRefs :
            LET pod == pending.summary.Pods[i]
            IN  FindService(pod.PodRef.Namespace, pod.PodRef.Name).ok =>
                    \A name \in DOMAIN uniqueContainers(pod.Containers, EmptyMap) :
                        LET found == FindContainer(pod.PodRef.Namespace, pod.PodRef.Name, name)
                            records == ThrottleRecords(ThrottleRefs[r].Name, pod.PodRef.Name, found.container.ID)
                        IN  found.ok =>
                                /\ Cardinality(records) = 1
                                /\ \A k \in records : metrics[k].Value = floatToInt(OwnSample(ThrottleRefs[r].Ref, pod.PodRef.Name, name))

\* C30 (pod network/rx), as claimed: the pod-scope network/rx record of a
\* resolved pod carries the pod's RxBytes, and the value fed to its
\* network/rx_rate - the one the rate table keeps for the key - is the
\* pod's RxBytes.
C30_PodRxFromRxBytes ==
    last.op = "nodeTask" =>
        \A i \in DOMAIN pending.summary.Pods :
            LET pod == pending.summary.Pods[i]
                key == getKey(TypePod, pod.PodRef.Namespace, pod.PodRef.Name, "network/rx_rate")
            IN  FindService(pod.PodRef.Namespace, pod.PodRef.Name).ok =>
                    /\ \E k \in DOMAIN metrics : metrics[k].Type = TypePod /\ metrics[k].Name = "network/rx" /\ metrics[k].PodName = pod.PodRef.Name
                    /\ \A k \in DOMAIN metrics :
                          (metrics[k].Type = TypePod /\ metrics[k].Name = "network/rx" /\ metrics[k].PodName = pod.PodRef.Name) => metrics[k].Value = pod.Network.RxBytes
                    /\ key \in DOMAIN previous
                    /\ previous[key].Value = pod.Network.RxBytes
====
